---- MODULE Spec2Model ----
(***************************************************************************)
(* vanity-eth: the pattern compiler, the matcher and the concurrent search *)
(* engine (generator.Run), together with the CLI and TUI front ends that   *)
(* validate the user input and consume the results.                        *)
(*                                                                         *)
(* Strings are sequences of one-character strings: "a|b" is                *)
(* <<"a", "|", "b">>.                                                       *)
(***************************************************************************)
EXTENDS Integers, Sequences, FiniteSets, TLC

(***************************************************************************)
(* Bounds of the model.                                                    *)
(***************************************************************************)
MaxWorkers == 2
MaxCount == 2
MaxMisses == 1

(***************************************************************************)
(* Characters and strings (package strings).                               *)
(***************************************************************************)
Digits == {"0", "1", "2", "3", "4", "5", "6", "7", "8", "9"}
LowerHex == {"a", "b", "c", "d", "e", "f"}
UpperHex == {"A", "B", "C", "D", "E", "F"}

NoErr == "nil"

\* Mutant: every character that is no parenthesis and no bar passes.
isHex_NoSyntax(c) == c \notin {"(", ")", "|"}

isHex(c) == c \in Digits \cup LowerHex \cup UpperHex

ToLowerChar(c) ==
    CASE c = "A" -> "a" [] c = "B" -> "b" [] c = "C" -> "c"
      [] c = "D" -> "d" [] c = "E" -> "e" [] c = "F" -> "f"
      [] c = "X" -> "x" [] OTHER -> c

ToLower(s) == [i \in 1..Len(s) |-> ToLowerChar(s[i])]

RECURSIVE TrimLeft(_)
TrimLeft(s) ==
    IF s # <<>> /\ Head(s) = " " THEN TrimLeft(Tail(s)) ELSE s

RECURSIVE TrimRight(_)
TrimRight(s) ==
    IF s # <<>> /\ s[Len(s)] = " " THEN TrimRight(SubSeq(s, 1, Len(s) - 1)) ELSE s

TrimSpace(s) == TrimRight(TrimLeft(s))

HasPrefix(s, p) == Len(p) <= Len(s) /\ SubSeq(s, 1, Len(p)) = p

HasSuffix(s, p) == Len(p) <= Len(s) /\ SubSeq(s, Len(s) - Len(p) + 1, Len(s)) = p

Contains(s, p) ==
    \E i \in 1..(Len(s) - Len(p) + 1) : SubSeq(s, i, i + Len(p) - 1) = p

TrimPrefix(s, p) == IF HasPrefix(s, p) THEN SubSeq(s, Len(p) + 1, Len(s)) ELSE s

(***************************************************************************)
(* The pattern compiler.  An outcome is [alts, err]: the alternatives and  *)
(* the error ("nil" when the call succeeds).                               *)
(***************************************************************************)
\* Mutant: a failed compile returns a non-empty slice with the error.
Failure_Partial(msg) == [alts |-> << <<"0">> >>, err |-> msg]

Failure(msg) == [alts |-> <<>>, err |-> msg]

Success(list) == [alts |-> list, err |-> NoErr]

\* splitTopLevel: i and start are the 1-based positions of the Go loop's
\* i and start; the parts are the pieces between the '|' of depth 0.
RECURSIVE splitTopLevelLoop(_, _, _, _, _)
splitTopLevelLoop(s, i, start, depth, parts) ==
    IF i > Len(s)
    THEN IF depth # 0 THEN Failure("unclosed '('")
         ELSE IF SubSeq(s, start, Len(s)) = <<>>
              THEN Failure("empty alternative near '|'")
              ELSE Success(Append(parts, SubSeq(s, start, Len(s))))
    ELSE CASE s[i] = "(" -> splitTopLevelLoop(s, i + 1, start, depth + 1, parts)
           [] s[i] = ")" ->
                IF depth - 1 < 0 THEN Failure("unexpected ')'")
                ELSE splitTopLevelLoop(s, i + 1, start, depth - 1, parts)
           [] s[i] = "|" ->
                IF depth = 0
                THEN IF SubSeq(s, start, i - 1) = <<>>
                     THEN Failure("empty alternative near '|'")
                     ELSE splitTopLevelLoop(s, i + 1, i + 1, depth,
                                            Append(parts, SubSeq(s, start, i - 1)))
                ELSE splitTopLevelLoop(s, i + 1, start, depth, parts)
           [] OTHER -> splitTopLevelLoop(s, i + 1, start, depth, parts)

splitTopLevel(s) == splitTopLevelLoop(s, 1, 1, 0, <<>>)

\* findGroupEnd: the 1-based position of the ')' that closes the '(' at
\* start, or 0 when there is none (the Go code returns -1 and an error).
RECURSIVE findGroupEndLoop(_, _, _)
findGroupEndLoop(s, i, depth) ==
    IF i > Len(s) THEN 0
    ELSE CASE s[i] = "(" -> findGroupEndLoop(s, i + 1, depth + 1)
           [] s[i] = ")" -> IF depth - 1 = 0 THEN i
                            ELSE findGroupEndLoop(s, i + 1, depth - 1)
           [] OTHER -> findGroupEndLoop(s, i + 1, depth)

findGroupEnd(s, start) == findGroupEndLoop(s, start, 0)

\* Mutant: the strings of the segment outermost.
appendSegment_SegmentFirst(prefixes, segment) ==
    [k \in 1..(Len(prefixes) * Len(segment)) |->
        prefixes[((k - 1) % Len(prefixes)) + 1]
            \o segment[((k - 1) \div Len(prefixes)) + 1]]

\* appendSegment: every prefix followed by every string of the segment,
\* prefixes outermost.
appendSegment(prefixes, segment) ==
    [k \in 1..(Len(prefixes) * Len(segment)) |->
        prefixes[((k - 1) \div Len(segment)) + 1]
            \o segment[((k - 1) % Len(segment)) + 1]]

\* The end (exclusive) of the run of hex characters that starts at i.
RECURSIVE hexRunEnd(_, _)
hexRunEnd(branch, j) ==
    IF j <= Len(branch) /\ isHex(branch[j]) THEN hexRunEnd(branch, j + 1) ELSE j

AllHex(list) == \A k \in 1..Len(list) : \A j \in 1..Len(list[k]) : isHex(list[k][j])

RECURSIVE expandBranchLoop(_, _, _)
expandBranchLoop(branch, i, alts) ==
    IF i > Len(branch) THEN Success(alts)
    ELSE LET c == branch[i] IN
         CASE isHex(c) ->
                LET j == hexRunEnd(branch, i + 1) IN
                expandBranchLoop(branch, j,
                                 appendSegment(alts, <<SubSeq(branch, i, j - 1)>>))
           [] c = "(" ->
                LET end == findGroupEnd(branch, i) IN
                IF end = 0 THEN Failure("unclosed '('")
                ELSE LET inner == SubSeq(branch, i + 1, end - 1) IN
                     IF inner = <<>> THEN Failure("empty group '()'")
                     ELSE LET groupAlts == splitTopLevel(inner) IN
                          IF groupAlts.err # NoErr THEN Failure(groupAlts.err)
                          ELSE IF ~AllHex(groupAlts.alts)
                               THEN Failure("invalid character in group")
                               ELSE expandBranchLoop(branch, end + 1,
                                        appendSegment(alts, groupAlts.alts))
           [] c = ")" -> Failure("unexpected ')'")
           [] c = "|" -> Failure("unexpected '|'")
           [] OTHER -> Failure("invalid character")

expandBranch(branch) == expandBranchLoop(branch, 1, << <<>> >>)

InSeq(x, list) == \E k \in 1..Len(list) : list[k] = x

\* The inner loop of compileHexPattern: append the alternatives that were
\* not seen before.
\* Mutant: the alternatives are appended without the look-up in seen.
appendUnseen_KeepAll(all, expanded) == all \o expanded

RECURSIVE appendUnseen(_, _)
appendUnseen(all, expanded) ==
    IF expanded = <<>> THEN all
    ELSE appendUnseen(IF InSeq(Head(expanded), all) THEN all
                      ELSE Append(all, Head(expanded)),
                      Tail(expanded))

RECURSIVE compileBranches(_, _)
compileBranches(branches, all) ==
    IF branches = <<>>
    THEN IF all = <<>> THEN Failure("pattern is empty") ELSE Success(all)
    ELSE LET expanded == expandBranch(Head(branches)) IN
         IF expanded.err # NoErr THEN Failure(expanded.err)
         ELSE compileBranches(Tail(branches), appendUnseen(all, expanded.alts))

StripHexMarker(s) ==
    IF Len(s) >= 2 /\ s[1] = "0" /\ s[2] \in {"x", "X"} THEN SubSeq(s, 3, Len(s))
    ELSE IF Len(s) >= 1 /\ s[1] \in {"x", "X"} THEN SubSeq(s, 2, Len(s))
    ELSE s

compileHexPattern(pattern) ==
    LET t == TrimSpace(pattern) IN
    IF t = <<>> THEN Success(<<>>)
    ELSE LET s == StripHexMarker(t) IN
         IF s = <<>> THEN Failure("pattern is empty")
         ELSE LET branches == splitTopLevel(s) IN
              IF branches.err # NoErr THEN Failure(branches.err)
              ELSE compileBranches(branches.alts, <<>>)

\* Mutant: every pattern passes validation.
ValidateHexPattern_Lenient(s) == NoErr

ValidateHexPattern(s) == compileHexPattern(s).err

(***************************************************************************)
(* Regular expressions (package regexp), for the patterns the model uses:  *)
(* an optional "^" followed by literal characters.  A pattern with an      *)
(* unclosed "(" does not compile.                                          *)
(***************************************************************************)
NilRegexp == [set |-> FALSE, anchored |-> FALSE, lit |-> <<>>]

RECURSIVE parenDepth(_)
parenDepth(r) ==
    IF r = <<>> THEN 0
    ELSE parenDepth(Tail(r))
         + (IF Head(r) = "(" THEN 1 ELSE IF Head(r) = ")" THEN -1 ELSE 0)

regexpCompile(r) ==
    IF parenDepth(r) # 0 THEN [re |-> NilRegexp, err |-> "missing closing )"]
    ELSE IF r # <<>> /\ Head(r) = "^"
         THEN [re |-> [set |-> TRUE, anchored |-> TRUE, lit |-> Tail(r)], err |-> NoErr]
         ELSE [re |-> [set |-> TRUE, anchored |-> FALSE, lit |-> r], err |-> NoErr]

MatchString(re, s) ==
    IF re.anchored THEN HasPrefix(s, re.lit) ELSE Contains(s, re.lit)

(***************************************************************************)
(* BuildMatcher.  The closure it returns is the record of the values the   *)
(* closure captures; Matches is the closure's body.                        *)
(***************************************************************************)
\* Mutant: the case is kept whatever caseSensitive is.
normalize_KeepCase(s, caseSensitive) == s

normalize(s, caseSensitive) == IF caseSensitive THEN s ELSE ToLower(s)

\* The call of the function value a caller of matchAlt passes for check:
\* strings.HasPrefix, strings.HasSuffix or strings.Contains.
Call(check, s, p) ==
    CASE check = "strings.HasPrefix" -> HasPrefix(s, p)
      [] check = "strings.HasSuffix" -> HasSuffix(s, p)
      [] check = "strings.Contains" -> Contains(s, p)

\* Mutant: every alternative has to pass.
matchAlt_All(haystack, alts, check) ==
    \A k \in 1..Len(alts) : Call(check, haystack, alts[k])

matchAlt(haystack, alts, check) ==
    \E k \in 1..Len(alts) : Call(check, haystack, alts[k])

BuildMatcher(prefix, suffix, contains, re, caseSensitive) ==
    [prefixAlts |-> compileHexPattern(normalize(prefix, caseSensitive)).alts,
     suffixAlts |-> compileHexPattern(normalize(suffix, caseSensitive)).alts,
     containsAlts |-> compileHexPattern(normalize(contains, caseSensitive)).alts,
     re |-> re,
     caseSensitive |-> caseSensitive]

Matches(m, addr) ==
    LET a == normalize(addr, m.caseSensitive)
        bare == TrimPrefix(a, <<"0", "x">>)
    IN  /\ ~(Len(m.prefixAlts) > 0 /\ ~matchAlt(bare, m.prefixAlts, "strings.HasPrefix"))
        /\ ~(Len(m.suffixAlts) > 0 /\ ~matchAlt(bare, m.suffixAlts, "strings.HasSuffix"))
        /\ ~(Len(m.containsAlts) > 0 /\ ~matchAlt(bare, m.containsAlts, "strings.Contains"))
        /\ ~(m.re.set /\ ~MatchString(m.re, addr))

NoMatcher == BuildMatcher(<<>>, <<>>, <<>>, NilRegexp, FALSE)

(***************************************************************************)
(* Keys and results.  A key is its secret scalar D and the checksummed     *)
(* (mixed-case) hex form of the address of its public key.  GenerateKey    *)
(* draws a fresh scalar on every call; a key that does not match is        *)
(* dropped in the step that generates it, so the model numbers the keys    *)
(* that match: D is 1 for the first of them, 2 for the second, ...         *)
(***************************************************************************)
HexChars == <<"0", "1", "2", "3", "4", "5", "6", "7",
              "8", "9", "a", "b", "c", "d", "e", "f">>

Bodies == { <<"A", "1">>, <<"1", "b">> }

NoKey == [D |-> 0, pub |-> <<>>]

addressFromKey(key, caseSensitive) ==
    IF caseSensitive THEN <<"0", "x">> \o key.pub
    ELSE ToLower(<<"0", "x">> \o key.pub)

privateKeyHex(key) == <<HexChars[(key.D \div 16) + 1], HexChars[(key.D % 16) + 1]>>

MakeResult(key, caseSensitive) ==
    [Address |-> addressFromKey(key, caseSensitive), PrivateKey |-> privateKeyHex(key)]

(***************************************************************************)
(* The configurations Run is called with.                                  *)
(***************************************************************************)
PatternCases ==
    { [Prefix |-> <<"a">>, Suffix |-> <<>>, Contains |-> <<>>,
       Regex |-> <<"^", "0", "x", "a">>, CaseSensitive |-> FALSE],
      [Prefix |-> <<"a">>, Suffix |-> <<>>, Contains |-> <<>>, Regex |-> <<"(">>,
       CaseSensitive |-> TRUE],
      [Prefix |-> <<"(">>, Suffix |-> <<"b">>, Contains |-> <<"1", "|">>,
       Regex |-> <<>>, CaseSensitive |-> FALSE] }

MakeConfig(p, workers, count) ==
    [Prefix |-> p.Prefix, Suffix |-> p.Suffix, Contains |-> p.Contains,
     Regex |-> p.Regex, Workers |-> workers, Count |-> count,
     CaseSensitive |-> p.CaseSensitive]

NoConfig ==
    [Prefix |-> <<>>, Suffix |-> <<>>, Contains |-> <<>>, Regex |-> <<>>,
     Workers |-> 0, Count |-> 0, CaseSensitive |-> FALSE]

WorkerIds == 1..MaxWorkers

VARIABLES
    cfg,            \* the Config handed to Run
    chanCap,        \* capacity of resultCh
    ctxDone,        \* the context has been cancelled
    runPc,          \* where Run's own goroutine is
    matcher,        \* the closure BuildMatcher returned
    spawned,        \* Run's loop variable i: goroutines started so far
    wg,             \* the WaitGroup counter
    pc,             \* where each worker goroutine is
    key,            \* the key a worker holds in this iteration
    total,          \* stats.Total
    found,          \* stats.Found
    ch,             \* the buffer of resultCh
    closed,         \* resultCh has been closed
    closeCount,     \* the number of close(resultCh) calls
    panicked,       \* a goroutine sent on the closed channel
    received,       \* the Results the caller has taken from resultCh
    keysGenerated,  \* history: the number of keys GenerateKey has returned
    matchLog,       \* history: the scalar D of the key of the n-th increment of Found
    onlyFailures,   \* history: GenerateKey has been called and every call has failed
    app             \* the front end that calls Run

vars == <<cfg, chanCap, ctxDone, runPc, matcher, spawned, wg, pc, key, total, found,
          ch, closed, closeCount, panicked, received, keysGenerated, matchLog,
          onlyFailures, app>>

\* The state of a search whose Run has not taken a step yet.
EngineReset(rp) ==
    /\ runPc = rp
    /\ matcher = NoMatcher
    /\ spawned = 0
    /\ wg = 0
    /\ pc = [w \in WorkerIds |-> "none"]
    /\ key = [w \in WorkerIds |-> NoKey]
    /\ total = 0
    /\ found = 0
    /\ ch = <<>>
    /\ closed = FALSE
    /\ closeCount = 0
    /\ panicked = FALSE
    /\ keysGenerated = 0
    /\ matchLog = <<>>
    /\ onlyFailures = FALSE

ApiCaller == [mode |-> "api"]

\* A caller's call of Run: any configuration, a channel whose capacity is
\* at most cfg.Count (the callers of this repository use cfg.Count), a
\* context that is not cancelled yet.
Init ==
    /\ \E p \in PatternCases, w \in 0..MaxWorkers, c \in 0..MaxCount :
          cfg = MakeConfig(p, w, c)
    /\ chanCap \in (IF cfg.Count = 0 THEN {0} ELSE 1..cfg.Count)
    /\ ctxDone = FALSE
    /\ received = <<>>
    /\ app = ApiCaller
    /\ EngineReset("entry")

(***************************************************************************)
(* Run's own goroutine.                                                    *)
(***************************************************************************)
\* The matcher Run builds from cfg: the regex is compiled (an error leaves
\* re nil) and handed to BuildMatcher with the three patterns.
RunMatcher(c) ==
    BuildMatcher(c.Prefix, c.Suffix, c.Contains,
                 IF c.Regex # <<>> THEN regexpCompile(c.Regex).re ELSE NilRegexp,
                 c.CaseSensitive)

RunStart ==
    /\ runPc = "entry"
    /\ matcher' = RunMatcher(cfg)
    /\ runPc' = "spawn"
    /\ UNCHANGED <<cfg, chanCap, ctxDone, spawned, wg, pc, key, total, found, ch,
                   closed, closeCount, panicked, received, keysGenerated, matchLog,
                   onlyFailures, app>>

\* One iteration of the loop that starts the workers: wg.Add(1); go func().
RunSpawn ==
    /\ runPc = "spawn"
    /\ spawned < cfg.Workers
    /\ wg' = wg + 1
    /\ spawned' = spawned + 1
    /\ pc' = [pc EXCEPT ![spawned + 1] = "top"]
    /\ UNCHANGED <<cfg, chanCap, ctxDone, runPc, matcher, key, total, found, ch,
                   closed, closeCount, panicked, received, keysGenerated, matchLog,
                   onlyFailures, app>>

\* Mutant: Run does not wait for the workers.
wgWaitReturns_NoWait == TRUE

\* wg.Wait() returns when the counter is zero.
wgWaitReturns == wg = 0

RunWait ==
    /\ runPc = "spawn"
    /\ ~(spawned < cfg.Workers)
    /\ wgWaitReturns
    /\ runPc' = "close"
    /\ UNCHANGED <<cfg, chanCap, ctxDone, matcher, spawned, wg, pc, key, total,
                   found, ch, closed, closeCount, panicked, received, keysGenerated,
                   matchLog, onlyFailures, app>>

RunClose ==
    /\ runPc = "close"
    /\ closed' = TRUE
    /\ closeCount' = closeCount + 1
    /\ runPc' = "done"
    /\ UNCHANGED <<cfg, chanCap, ctxDone, matcher, spawned, wg, pc, key, total,
                   found, ch, panicked, received, keysGenerated, matchLog, onlyFailures,
                   app>>

(***************************************************************************)
(* A worker goroutine.                                                     *)
(***************************************************************************)
\* return, with the deferred wg.Done().
WorkerReturn(w) ==
    /\ pc' = [pc EXCEPT ![w] = "exited"]
    /\ key' = [key EXCEPT ![w] = NoKey]
    /\ wg' = wg - 1

\* select { case <-ctx.Done(): return; default: }
WorkerCheckCtx(w) ==
    /\ pc[w] = "top"
    /\ IF ctxDone THEN WorkerReturn(w)
       ELSE /\ pc' = [pc EXCEPT ![w] = "load"]
            /\ UNCHANGED <<key, wg>>
    /\ UNCHANGED <<cfg, chanCap, ctxDone, runPc, matcher, spawned, total, found, ch,
                   closed, closeCount, panicked, received, keysGenerated, matchLog,
                   onlyFailures, app>>

\* Mutants: the loop-top test is off by one, either way.
targetReached_Early == found >= cfg.Count - 1

targetReached_Late == found > cfg.Count

\* The loop-top test of Found against the target count.
targetReached == found >= cfg.Count

\* if int(stats.Found.Load()) >= cfg.Count { return }
WorkerCheckFound(w) ==
    /\ pc[w] = "load"
    /\ IF targetReached THEN WorkerReturn(w)
       ELSE /\ pc' = [pc EXCEPT ![w] = "gen"]
            /\ UNCHANGED <<key, wg>>
    /\ UNCHANGED <<cfg, chanCap, ctxDone, runPc, matcher, spawned, total, found, ch,
                   closed, closeCount, panicked, received, keysGenerated, matchLog,
                   onlyFailures, app>>

\* The keys generated so far that matched, and those that did not: the
\* model lets at most MaxMisses keys miss, which bounds Total.
MatchingKeys == found + Cardinality({v \in WorkerIds : pc[v] = "add"})

Misses == total - MatchingKeys

\* Mutant: the increment of Total is lost.
TotalAdd_Lost == total

\* stats.Total.Add(1)
TotalAdd == total + 1

\* key, err := crypto.GenerateKey() with err == nil; stats.Total.Add(1);
\* addr := addressFromKey(key, cfg.CaseSensitive); matcher(addr).  GenerateKey,
\* addressFromKey and the matcher touch nothing shared, so the step is the
\* atomic Total.Add with the local work around it.
WorkerGenerate(w) ==
    /\ pc[w] = "gen"
    /\ keysGenerated' = keysGenerated + 1
    /\ total' = TotalAdd
    /\ onlyFailures' = FALSE
    /\ \E body \in Bodies :
          LET k == [D |-> MatchingKeys + 1, pub |-> body] IN
          IF Matches(matcher, addressFromKey(k, cfg.CaseSensitive))
          THEN /\ key' = [key EXCEPT ![w] = k]
               /\ pc' = [pc EXCEPT ![w] = "add"]
          ELSE /\ Misses < MaxMisses
               /\ key' = key
               /\ pc' = [pc EXCEPT ![w] = "top"]
    /\ UNCHANGED <<cfg, chanCap, ctxDone, runPc, matcher, spawned, wg, found, ch,
                   closed, closeCount, panicked, received, matchLog, app>>

\* Mutant: Total is incremented before err is tested.
WorkerGenerateFail_Counted(w) ==
    /\ pc[w] = "gen"
    /\ pc' = [pc EXCEPT ![w] = "top"]
    /\ onlyFailures' = (keysGenerated = 0)
    /\ total' = total + 1
    /\ UNCHANGED <<cfg, chanCap, ctxDone, runPc, matcher, spawned, wg, key, found, ch,
                   closed, closeCount, panicked, received, keysGenerated, matchLog, app>>

\* key, err := crypto.GenerateKey() with err != nil: continue.
WorkerGenerateFail(w) ==
    /\ pc[w] = "gen"
    /\ pc' = [pc EXCEPT ![w] = "top"]
    /\ onlyFailures' = (keysGenerated = 0)
    /\ UNCHANGED <<cfg, chanCap, ctxDone, runPc, matcher, spawned, wg, key, total,
                   found, ch, closed, closeCount, panicked, received, keysGenerated,
                   matchLog, app>>

\* Mutants: every match is published; the test is off by one, either way.
publishes_Always(n) == TRUE

publishes_OneMore(n) == n <= cfg.Count + 1

publishes_OneLess(n) == n < cfg.Count

publishes_Double(n) == n <= 2 * cfg.Count

\* The test of n against cfg.Count that decides whether the match is published.
publishes(n) == n <= cfg.Count

\* n := stats.Found.Add(1); if int(n) <= cfg.Count { (the send) }
WorkerFound(w) ==
    /\ pc[w] = "add"
    /\ found' = found + 1
    /\ matchLog' = Append(matchLog, key[w].D)
    /\ IF publishes(found')
       THEN /\ pc' = [pc EXCEPT ![w] = "send"]
            /\ key' = key
       ELSE /\ pc' = [pc EXCEPT ![w] = "top"]
            /\ key' = [key EXCEPT ![w] = NoKey]
    /\ UNCHANGED <<cfg, chanCap, ctxDone, runPc, matcher, spawned, wg, total, ch,
                   closed, closeCount, panicked, received, keysGenerated, onlyFailures,
                   app>>

\* The send case of the select: the buffer has room (a send on a closed
\* channel panics instead).
WorkerPublish(w) ==
    /\ pc[w] = "send"
    /\ IF closed
       THEN /\ panicked' = TRUE
            /\ ch' = ch
       ELSE /\ Len(ch) < chanCap
            /\ ch' = Append(ch, MakeResult(key[w], cfg.CaseSensitive))
            /\ panicked' = panicked
    /\ pc' = [pc EXCEPT ![w] = "top"]
    /\ key' = [key EXCEPT ![w] = NoKey]
    /\ UNCHANGED <<cfg, chanCap, ctxDone, runPc, matcher, spawned, wg, total, found,
                   closed, closeCount, received, keysGenerated, matchLog, onlyFailures,
                   app>>

\* Mutant: the send is a plain send, without the case <-ctx.Done().
WorkerSendCancelled_Missing(w) == FALSE /\ UNCHANGED vars

WorkerSendCancelled_Uncounted(w) ==
    /\ pc[w] = "send"
    /\ ctxDone
    /\ WorkerReturn(w)
    /\ found' = found - 1
    /\ UNCHANGED <<cfg, chanCap, ctxDone, runPc, matcher, spawned, total, ch,
                   closed, closeCount, panicked, received, keysGenerated, matchLog,
                   onlyFailures, app>>

\* The case <-ctx.Done() of the select around the send: return.
WorkerSendCancelled(w) ==
    /\ pc[w] = "send"
    /\ ctxDone
    /\ WorkerReturn(w)
    /\ UNCHANGED <<cfg, chanCap, ctxDone, runPc, matcher, spawned, total, found, ch,
                   closed, closeCount, panicked, received, keysGenerated, matchLog,
                   onlyFailures, app>>

Worker(w) ==
    \/ WorkerCheckCtx(w)
    \/ WorkerCheckFound(w)
    \/ WorkerGenerate(w)
    \/ WorkerGenerateFail(w)
    \/ WorkerFound(w)
    \/ WorkerPublish(w)
    \/ WorkerSendCancelled(w)

Engine ==
    \/ RunStart
    \/ RunSpawn
    \/ RunWait
    \/ RunClose
    \/ \E w \in WorkerIds : Worker(w)

(***************************************************************************)
(* The caller of Run: it takes Results from the channel and may cancel     *)
(* the context at any time.                                                *)
(***************************************************************************)
Receive ==
    /\ app.mode = "api"
    /\ ch # <<>>
    /\ received' = Append(received, Head(ch))
    /\ ch' = Tail(ch)
    /\ UNCHANGED <<cfg, chanCap, ctxDone, runPc, matcher, spawned, wg, pc, key,
                   total, found, closed, closeCount, panicked, keysGenerated,
                   matchLog, onlyFailures, app>>

Cancel ==
    /\ app.mode = "api"
    /\ ~ctxDone
    /\ ctxDone' = TRUE
    /\ UNCHANGED <<cfg, chanCap, runPc, matcher, spawned, wg, pc, key, total, found,
                   ch, closed, closeCount, panicked, received, keysGenerated,
                   matchLog, onlyFailures, app>>

Next ==
    \/ RunStart
    \/ RunSpawn
    \/ RunWait
    \/ RunClose
    \/ \E w \in WorkerIds : Worker(w)
    \/ Receive
    \/ Cancel

Spec == Init /\ [][Next]_vars

\* The Go scheduler runs every goroutine that can take a step: Run's own
\* goroutine and every worker.  Nothing is assumed of the caller, nor of
\* the outcome of GenerateKey.
Fairness ==
    /\ WF_vars(RunStart)
    /\ WF_vars(RunSpawn)
    /\ WF_vars(RunWait)
    /\ WF_vars(RunClose)
    /\ \A w \in WorkerIds : WF_vars(Worker(w))

FairSpec == Spec /\ Fairness

(***************************************************************************)
(* The front ends.  app is the state of the front end that calls Run: the  *)
(* command line (runCLI) or the terminal UI (Model).  The Results the      *)
(* front end has taken are in received (collected, m.results), its Config  *)
(* in cfg, its context in ctxDone, its Stats in total and found, its       *)
(* channel in ch, chanCap and closed.                                      *)
(***************************************************************************)
\* The error values of the front ends: <<>> is nil (an empty errMsg), an
\* error is <<what, message>>.
NoError == <<>>

DigitChars == <<"0", "1", "2", "3", "4", "5", "6", "7", "8", "9">>

DigitValue(c) == CHOOSE n \in 0..9 : DigitChars[n + 1] = c

RECURSIVE ParseDigits(_, _)
ParseDigits(s, acc) ==
    IF s = <<>> THEN acc ELSE ParseDigits(Tail(s), acc * 10 + DigitValue(Head(s)))

\* strconv.Atoi: an optional sign and at least one digit, nothing else.
Atoi(s) ==
    LET signed == s # <<>> /\ s[1] \in {"+", "-"}
        body == IF signed THEN Tail(s) ELSE s
    IN  IF body = <<>> \/ \E i \in 1..Len(body) : body[i] \notin Digits
        THEN [n |-> 0, err |-> "invalid syntax"]
        ELSE [n |-> (IF signed /\ s[1] = "-" THEN 0 - ParseDigits(body, 0)
                     ELSE ParseDigits(body, 0)),
              err |-> NoErr]

\* The decimal form of a small number, as the user types it.
Itoa(n) == <<DigitChars[n + 1]>>

\* The state in which Run is not running: no search has been started.
EngineIdle ==
    /\ cfg = NoConfig
    /\ chanCap = 0
    /\ ctxDone = FALSE
    /\ received = <<>>
    /\ EngineReset("idle")

\* The front end drops the objects of its search.
DropSearch ==
    /\ cfg' = NoConfig
    /\ chanCap' = 0
    /\ ctxDone' = FALSE
    /\ received' = <<>>
    /\ runPc' = "idle"
    /\ matcher' = NoMatcher
    /\ spawned' = 0
    /\ wg' = 0
    /\ pc' = [w \in WorkerIds |-> "none"]
    /\ key' = [w \in WorkerIds |-> NoKey]
    /\ total' = 0
    /\ found' = 0
    /\ ch' = <<>>
    /\ closed' = FALSE
    /\ closeCount' = 0
    /\ panicked' = FALSE
    /\ keysGenerated' = 0
    /\ matchLog' = <<>>
    /\ onlyFailures' = FALSE

\* A fresh context, fresh Stats, make(chan generator.Result, capacity) and
\* go generator.Run(ctx, c, resultCh, stats).
LaunchRun(c, capacity) ==
    /\ cfg' = c
    /\ chanCap' = capacity
    /\ ctxDone' = FALSE
    /\ received' = <<>>
    /\ runPc' = "entry"
    /\ matcher' = NoMatcher
    /\ spawned' = 0
    /\ wg' = 0
    /\ pc' = [w \in WorkerIds |-> "none"]
    /\ key' = [w \in WorkerIds |-> NoKey]
    /\ total' = 0
    /\ found' = 0
    /\ ch' = <<>>
    /\ closed' = FALSE
    /\ closeCount' = 0
    /\ panicked' = FALSE
    /\ keysGenerated' = 0
    /\ matchLog' = <<>>
    /\ onlyFailures' = FALSE

\* The errors of the loop over the map of the three patterns: the map is
\* ranged over in no fixed order, so any failing pattern may be the one
\* that is reported.
HexErrors(prefix, suffix, contains, labels) ==
    {<<labels[i], ValidateHexPattern(<<prefix, suffix, contains>>[i])>> :
        i \in {j \in 1..3 : /\ <<prefix, suffix, contains>>[j] # <<>>
                            /\ ValidateHexPattern(<<prefix, suffix, contains>>[j]) # NoErr}}

(***************************************************************************)
(* The command line.                                                       *)
(***************************************************************************)
\* The flags of the invocations the model explores.
CliFormats == {"text", "xml"}

CliInvocations ==
    {[mode |-> "cli", flags |-> MakeConfig(p, w, c), flagFormat |-> f,
      pc |-> "start", err |-> NoError] :
        p \in PatternCases, w \in -1..MaxWorkers, c \in -1..MaxCount, f \in CliFormats}

\* The checks at the head of runCLI: the errors it may return.
runCLIErrors(a) ==
    LET hex == HexErrors(a.flags.Prefix, a.flags.Suffix, a.flags.Contains,
                         <<"--prefix", "--suffix", "--contains">>)
    IN  IF hex # {} THEN hex
        ELSE IF a.flags.Regex # <<>> /\ regexpCompile(a.flags.Regex).err # NoErr
        THEN {<<"invalid regex", regexpCompile(a.flags.Regex).err>>}
        ELSE IF a.flagFormat # "text" /\ a.flagFormat # "json"
        THEN {<<"--format", "must be text or json">>}
        ELSE {}

\* runCLI up to go generator.Run: it returns an error, or builds the Config
\* from the flags as they are and starts Run on a channel of capacity
\* flagCount; make(chan generator.Result, flagCount) panics for a negative
\* flagCount, before Run is started.
CliStart ==
    /\ app.mode = "cli"
    /\ app.pc = "start"
    /\ IF runCLIErrors(app) # {}
       THEN /\ \E e \in runCLIErrors(app) : app' = [app EXCEPT !.pc = "exit", !.err = e]
            /\ UNCHANGED <<cfg, chanCap, runPc, matcher, spawned, wg, pc, key, total,
                           found, ch, closed, closeCount, panicked, keysGenerated,
                           matchLog, onlyFailures, received, ctxDone>>
       ELSE IF app.flags.Count < 0
       THEN /\ app' = [app EXCEPT !.pc = "panic"]
            /\ UNCHANGED <<cfg, chanCap, runPc, matcher, spawned, wg, pc, key, total,
                           found, ch, closed, closeCount, panicked, keysGenerated,
                           matchLog, onlyFailures, received, ctxDone>>
       ELSE /\ app' = [app EXCEPT !.pc = "loop"]
            /\ LaunchRun(app.flags, app.flags.Count)

\* case r, ok := <-resultCh with ok: collected = append(collected, r).
CliReceive ==
    /\ app.mode = "cli"
    /\ app.pc = "loop"
    /\ ch # <<>>
    /\ received' = Append(received, Head(ch))
    /\ ch' = Tail(ch)
    /\ UNCHANGED <<cfg, chanCap, ctxDone, runPc, matcher, spawned, wg, pc, key, total,
                   found, closed, closeCount, panicked, keysGenerated, matchLog,
                   onlyFailures, app>>

\* case r, ok := <-resultCh with !ok: break loop; runCLI returns nil and the
\* deferred cancel() runs.
CliChannelClosed ==
    /\ app.mode = "cli"
    /\ app.pc = "loop"
    /\ ch = <<>>
    /\ closed
    /\ app' = [app EXCEPT !.pc = "exit"]
    /\ ctxDone' = TRUE
    /\ UNCHANGED <<cfg, chanCap, runPc, matcher, spawned, wg, pc, key, total, found,
                   ch, closed, closeCount, panicked, received, keysGenerated, matchLog,
                   onlyFailures>>

\* SIGINT or SIGTERM cancels the context of signal.NotifyContext.
CliSignal ==
    /\ app.mode = "cli"
    /\ app.pc \in {"loop", "drain"}
    /\ ~ctxDone
    /\ ctxDone' = TRUE
    /\ UNCHANGED <<cfg, chanCap, runPc, matcher, spawned, wg, pc, key, total, found,
                   ch, closed, closeCount, panicked, received, keysGenerated, matchLog,
                   onlyFailures, app>>

\* case <-ctx.Done(): the loop is left for the drain of the channel.
CliCtxDone ==
    /\ app.mode = "cli"
    /\ app.pc = "loop"
    /\ ctxDone
    /\ app' = [app EXCEPT !.pc = "drain"]
    /\ UNCHANGED <<cfg, chanCap, ctxDone, runPc, matcher, spawned, wg, pc, key, total,
                   found, ch, closed, closeCount, panicked, received, keysGenerated,
                   matchLog, onlyFailures>>

\* for r := range resultCh { collected = append(collected, r) }
CliDrain ==
    /\ app.mode = "cli"
    /\ app.pc = "drain"
    /\ ch # <<>>
    /\ received' = Append(received, Head(ch))
    /\ ch' = Tail(ch)
    /\ UNCHANGED <<cfg, chanCap, ctxDone, runPc, matcher, spawned, wg, pc, key, total,
                   found, closed, closeCount, panicked, keysGenerated, matchLog,
                   onlyFailures, app>>

CliDrainEnd_Early ==
    /\ app.mode = "cli"
    /\ app.pc = "drain"
    /\ ch = <<>>
    /\ app' = [app EXCEPT !.pc = "exit"]
    /\ UNCHANGED <<cfg, chanCap, ctxDone, runPc, matcher, spawned, wg, pc, key, total,
                   found, ch, closed, closeCount, panicked, received, keysGenerated,
                   matchLog, onlyFailures>>

\* The range over resultCh ends when the channel is closed and empty.
CliDrainEnd ==
    /\ app.mode = "cli"
    /\ app.pc = "drain"
    /\ ch = <<>>
    /\ closed
    /\ app' = [app EXCEPT !.pc = "exit"]
    /\ UNCHANGED <<cfg, chanCap, ctxDone, runPc, matcher, spawned, wg, pc, key, total,
                   found, ch, closed, closeCount, panicked, received, keysGenerated,
                   matchLog, onlyFailures>>

Cli ==
    \/ CliStart
    \/ CliReceive
    \/ CliChannelClosed
    \/ CliSignal
    \/ CliCtxDone
    \/ CliDrain
    \/ CliDrainEnd

(***************************************************************************)
(* The terminal UI.  msg is the message the waitForResult command has      *)
(* produced and Update has not handled yet; waiting says that a            *)
(* waitForResult command is blocked on the channel.                        *)
(***************************************************************************)
NoResult == [Address |-> <<>>, PrivateKey |-> <<>>]

NoMsg == [type |-> "none", r |-> NoResult]

\* What the user may have typed into the form when a key is handled.
FormPatterns ==
    { [Prefix |-> <<>>, Suffix |-> <<>>, Contains |-> <<>>, caseSensitive |-> FALSE],
      [Prefix |-> <<" ", "a">>, Suffix |-> <<>>, Contains |-> <<>>, caseSensitive |-> FALSE],
      [Prefix |-> <<"(">>, Suffix |-> <<"b">>, Contains |-> <<"1", "|">>,
       caseSensitive |-> FALSE],
      [Prefix |-> <<>>, Suffix |-> <<"b", " ">>, Contains |-> <<>>, caseSensitive |-> TRUE] }

CountInputs == {Itoa(n) : n \in 0..MaxCount} \cup {<<"x">>, <<"-", "1">>}

WorkersInputs == {Itoa(n) : n \in 0..MaxWorkers} \cup {<<>>}

FormInputs ==
    {[Prefix |-> p.Prefix, Suffix |-> p.Suffix, Contains |-> p.Contains,
      Count |-> c, Workers |-> w, caseSensitive |-> p.caseSensitive] :
        p \in FormPatterns, c \in CountInputs, w \in WorkersInputs}

\* New(): the form with the count "1" and the workers runtime.NumCPU().
New ==
    [mode |-> "tui", state |-> "stateForm",
     inputs |-> [Prefix |-> <<>>, Suffix |-> <<>>, Contains |-> <<>>,
                 Count |-> Itoa(1), Workers |-> Itoa(MaxWorkers), caseSensitive |-> FALSE],
     ctx |-> "nil", stats |-> "nil", resultCh |-> "nil",
     errMsg |-> NoError, waiting |-> FALSE, msg |-> NoMsg]

\* The keys that edit the form (updateActiveInput, the space on the case
\* field): the form holds another input.
TuiEdit ==
    /\ app.mode = "tui"
    /\ app.state = "stateForm"
    /\ \E f \in FormInputs :
          /\ f # app.inputs
          /\ app' = [app EXCEPT !.inputs = f]
    /\ UNCHANGED <<cfg, chanCap, ctxDone, runPc, matcher, spawned, wg, pc, key, total,
                   found, ch, closed, closeCount, panicked, received, keysGenerated,
                   matchLog, onlyFailures>>

\* prepareSearch: the errors it may return, and the Config it builds.
prepareSearchErrors(in) ==
    LET prefix == TrimSpace(in.Prefix)
        suffix == TrimSpace(in.Suffix)
        contains == TrimSpace(in.Contains)
        hex == HexErrors(prefix, suffix, contains, <<"prefix", "suffix", "contains">>)
        count == Atoi(TrimSpace(in.Count))
        workers == Atoi(TrimSpace(in.Workers))
    IN  IF prefix = <<>> /\ suffix = <<>> /\ contains = <<>>
        THEN {<<"form", "enter at least one of: prefix, suffix, or contains">>}
        ELSE IF hex # {} THEN hex
        ELSE IF count.err # NoErr \/ count.n < 1
        THEN {<<"count", "must be a positive integer">>}
        ELSE IF workers.err # NoErr \/ workers.n < 1
        THEN {<<"workers", "must be a positive integer">>}
        ELSE {}

prepareSearchConfig(in) ==
    [Prefix |-> TrimSpace(in.Prefix), Suffix |-> TrimSpace(in.Suffix),
     Contains |-> TrimSpace(in.Contains), Regex |-> <<>>,
     Workers |-> Atoi(TrimSpace(in.Workers)).n, Count |-> Atoi(TrimSpace(in.Count)).n,
     CaseSensitive |-> in.caseSensitive]

\* Enter on the form: prepareSearch fails and its error becomes errMsg, or
\* the search starts (runGenerator and waitForResult are issued).
TuiEnter ==
    /\ app.mode = "tui"
    /\ app.state = "stateForm"
    /\ IF prepareSearchErrors(app.inputs) # {}
       THEN /\ \E e \in prepareSearchErrors(app.inputs) : app' = [app EXCEPT !.errMsg = e]
            /\ UNCHANGED <<cfg, chanCap, runPc, matcher, spawned, wg, pc, key, total,
                           found, ch, closed, closeCount, panicked, keysGenerated,
                           matchLog, onlyFailures, received, ctxDone>>
       ELSE /\ app' = [app EXCEPT !.state = "stateRunning", !.ctx = "set",
                                  !.stats = "set", !.resultCh = "set",
                                  !.errMsg = NoError, !.waiting = TRUE]
            /\ LaunchRun(prepareSearchConfig(app.inputs),
                         prepareSearchConfig(app.inputs).Count)

\* The command of waitForResult: r, ok := <-ch gives a resultMsg, or a
\* doneMsg when the channel is closed and empty.
TuiWaitForResult ==
    /\ app.mode = "tui"
    /\ app.waiting
    /\ \/ /\ ch # <<>>
          /\ app' = [app EXCEPT !.waiting = FALSE,
                                !.msg = [type |-> "resultMsg", r |-> Head(ch)]]
          /\ ch' = Tail(ch)
       \/ /\ ch = <<>>
          /\ closed
          /\ app' = [app EXCEPT !.waiting = FALSE,
                                !.msg = [type |-> "doneMsg", r |-> NoResult]]
          /\ ch' = ch
    /\ UNCHANGED <<cfg, chanCap, ctxDone, runPc, matcher, spawned, wg, pc, key, total,
                   found, closed, closeCount, panicked, received, keysGenerated,
                   matchLog, onlyFailures>>

\* Update, case resultMsg: the Result is appended and waitForResult issued
\* again only in the running state.
TuiResultMsg ==
    /\ app.mode = "tui"
    /\ app.msg.type = "resultMsg"
    /\ IF app.state = "stateRunning"
       THEN /\ received' = Append(received, app.msg.r)
            /\ app' = [app EXCEPT !.msg = NoMsg, !.waiting = TRUE]
       ELSE /\ received' = received
            /\ app' = [app EXCEPT !.msg = NoMsg]
    /\ UNCHANGED <<cfg, chanCap, ctxDone, runPc, matcher, spawned, wg, pc, key, total,
                   found, ch, closed, closeCount, panicked, keysGenerated, matchLog,
                   onlyFailures>>

\* Update, case doneMsg: cancel() and the results screen.
TuiDoneMsg ==
    /\ app.mode = "tui"
    /\ app.msg.type = "doneMsg"
    /\ ctxDone' = TRUE
    /\ app' = [app EXCEPT !.msg = NoMsg, !.state = "stateResults"]
    /\ UNCHANGED <<cfg, chanCap, runPc, matcher, spawned, wg, pc, key, total, found,
                   ch, closed, closeCount, panicked, received, keysGenerated, matchLog,
                   onlyFailures>>

TuiStop_ToResults ==
    /\ app.mode = "tui"
    /\ app.state = "stateRunning"
    /\ ctxDone' = TRUE
    /\ app' = [app EXCEPT !.state = "stateResults"]
    /\ UNCHANGED <<cfg, chanCap, runPc, matcher, spawned, wg, pc, key, total, found,
                   ch, closed, closeCount, panicked, received, keysGenerated, matchLog,
                   onlyFailures>>

\* The stop key in the running state: cancel(), nothing else.
TuiStop ==
    /\ app.mode = "tui"
    /\ app.state = "stateRunning"
    /\ ctxDone' = TRUE
    /\ UNCHANGED <<cfg, chanCap, runPc, matcher, spawned, wg, pc, key, total, found,
                   ch, closed, closeCount, panicked, received, keysGenerated, matchLog,
                   onlyFailures, app>>

\* The new-search key on the results screen: the Model is replaced by New().
TuiNew ==
    /\ app.mode = "tui"
    /\ app.state = "stateResults"
    /\ app' = New
    /\ DropSearch

Tui ==
    \/ TuiEdit
    \/ TuiEnter
    \/ TuiWaitForResult
    \/ TuiResultMsg
    \/ TuiDoneMsg
    \/ TuiStop
    \/ TuiNew

\* runRoot: the program runs the command line or the terminal UI.
InitApp ==
    /\ app \in CliInvocations \cup {New}
    /\ EngineIdle

NextApp ==
    \/ RunStart
    \/ RunSpawn
    \/ RunWait
    \/ RunClose
    \/ \E w \in WorkerIds : Worker(w)
    \/ CliStart
    \/ CliReceive
    \/ CliChannelClosed
    \/ CliSignal
    \/ CliCtxDone
    \/ CliDrain
    \/ CliDrainEnd
    \/ TuiEdit
    \/ TuiEnter
    \/ TuiWaitForResult
    \/ TuiResultMsg
    \/ TuiDoneMsg
    \/ TuiStop
    \/ TuiNew

SpecApp == InitApp /\ [][NextApp]_vars

\* The goroutine of the front end is scheduled like the others: a select or
\* a receive with a ready case takes one (runCLI), and the runtime of the
\* terminal UI runs a command that can finish and delivers its message to
\* Update.  Nothing is assumed of the user: no key is pressed and no signal
\* sent unless the behaviour says so.
FairnessApp ==
    /\ Fairness
    /\ WF_vars(CliStart)
    /\ WF_vars(CliReceive)
    /\ WF_vars(CliChannelClosed)
    /\ WF_vars(CliCtxDone)
    /\ WF_vars(CliDrain)
    /\ WF_vars(CliDrainEnd)
    /\ WF_vars(TuiWaitForResult)
    /\ WF_vars(TuiResultMsg)
    /\ WF_vars(TuiDoneMsg)

FairSpecApp == SpecApp /\ FairnessApp

(***************************************************************************)
(* The claims about the search engine.                                     *)
(***************************************************************************)
\* Every Result sent on resultCh so far, in the order of the sends.
Published == received \o ch

KeyHex(d) == privateKeyHex([D |-> d, pub |-> <<>>])

\* C1: in every reachable state of a search the number of Results sent on
\* the output channel is at most cfg.Count.
C1_AtMostCountPublished == Len(Published) <= cfg.Count

C1_Witness ==
    /\ cfg.Workers = 2
    /\ cfg.Count = 2
    /\ Len(Published) = cfg.Count
    /\ found > cfg.Count

\* C2: Run closes the channel exactly once and only after every worker has
\* exited: once it is closed no worker is running or still to be started,
\* and no worker ever sends on the closed channel.
C2_ClosedOnceAfterWorkers ==
    /\ closeCount <= 1
    /\ closed <=> closeCount = 1
    /\ runPc = "done" => closed
    /\ closed => /\ ~(spawned < cfg.Workers)
                 /\ \A w \in WorkerIds : pc[w] = (IF w <= cfg.Workers THEN "exited" ELSE "none")
    /\ ~panicked

C2_Witness ==
    /\ closed
    /\ cfg.Workers = 2
    /\ Len(Published) = 2
    /\ ~ctxDone

\* C3: with Workers >= 1, Count >= 1 and a channel of capacity Count, if the
\* context is never cancelled and every worker keeps generating keys whose
\* address matches, Run terminates: it has published exactly Count Results of
\* pairwise distinct keys, closed the channel once, and Found >= Count and
\* Total >= Found.
GeneratesMatch(w) == WorkerGenerate(w) /\ pc'[w] = "add"

SomeBodyMatches ==
    \E body \in Bodies :
        Matches(RunMatcher(cfg), addressFromKey([D |-> 1, pub |-> body], cfg.CaseSensitive))

DistinctKeys(rs) ==
    \A i, j \in 1..Len(rs) : i # j => rs[i].PrivateKey # rs[j].PrivateKey

C3_Terminated ==
    /\ runPc = "done"
    /\ closeCount = 1
    /\ Len(Published) = cfg.Count
    /\ DistinctKeys(Published)
    /\ found >= cfg.Count
    /\ total >= found

C3_TerminatesWithCountResults ==
    ( /\ cfg.Workers >= 1
      /\ cfg.Count >= 1
      /\ chanCap >= cfg.Count
      /\ SomeBodyMatches
      /\ \A w \in WorkerIds : SF_vars(GeneratesMatch(w)) )
    => (<>ctxDone \/ <>[]C3_Terminated)

C3_Witness ==
    /\ C3_Terminated
    /\ ~ctxDone
    /\ cfg.Workers = 2
    /\ cfg.Count = 2
    /\ chanCap = 2

\* C4: once the context is cancelled no worker starts another iteration (it
\* leaves at the loop top or from the select around the send), so every worker
\* exits and Run closes the channel; nothing is sent on the closed channel.
AllWorkersGone == \A w \in WorkerIds : pc[w] \in {"none", "exited"}

C4_CancelStopsTheSearch ==
    /\ [][ctxDone => \A w \in WorkerIds : ~(pc[w] = "top" /\ pc'[w] = "load")]_vars
    /\ ctxDone ~> (closed /\ AllWorkersGone)
    /\ []~panicked
    /\ [][closed => Published' = Published]_vars

\* A match within the target count whose send was given up for ctx.Done()
\* while the buffer was full.
C4_Witness ==
    /\ closed
    /\ ctxDone
    /\ found <= cfg.Count
    /\ Len(Published) < found
    /\ Len(ch) = chanCap

\* C5: a match is sent exactly when its post-increment value n of Found is at
\* most Count (unless the context is cancelled first); a match with n > Count
\* is counted and dropped.  So every published Result is the key of one of the
\* first Count increments of Found.
FirstCount ==
    {matchLog[n] : n \in 1..(IF Len(matchLog) < cfg.Count THEN Len(matchLog) ELSE cfg.Count)}

BeyondCount == {matchLog[n] : n \in (cfg.Count + 1)..Len(matchLog)}

IsPublished(d) == \E i \in 1..Len(Published) : Published[i].PrivateKey = KeyHex(d)

IsHeld(d) == \E w \in WorkerIds : key[w].D = d

C5_PublishedWithinFirstCount ==
    /\ Len(matchLog) = found
    /\ \A i \in 1..Len(Published) :
          \E d \in FirstCount : Published[i].PrivateKey = KeyHex(d)
    /\ \A w \in WorkerIds : pc[w] = "send" => key[w].D \in FirstCount
    /\ \A d \in BeyondCount : ~IsPublished(d) /\ ~IsHeld(d)
    /\ \A d \in FirstCount : IsPublished(d) \/ IsHeld(d) \/ ctxDone

\* The Result published first is the one of the second increment of Found.
C5_Witness ==
    /\ Len(received) = 2
    /\ Len(matchLog) >= 2
    /\ received[1].PrivateKey = KeyHex(matchLog[2])

\* C6: Total counts the keys GenerateKey has returned, one increment each,
\* and a key is counted before it is matched (and so before Found counts it).  A
\* failed GenerateKey changes neither counter, publishes nothing, raises
\* nothing and sends the worker to the loop top; so even if every call fails,
\* a cancellation is followed by the close of the channel.
C6_FailedGenerationIsSilent ==
    /\ [](total = keysGenerated)
    /\ [](total >= MatchingKeys)
    /\ [][\A w \in WorkerIds :
            (pc[w] = "gen" /\ pc'[w] # "gen" /\ keysGenerated' = keysGenerated)
            => /\ pc'[w] = "top"
               /\ UNCHANGED <<total, found, ch, received, closed, panicked, runPc,
                              wg, app>>]_vars
    /\ [](keysGenerated = 0) => (ctxDone ~> closed)

C6_Witness ==
    /\ onlyFailures
    /\ keysGenerated = 0
    /\ cfg.Workers >= 1
    /\ cfg.Count >= 1
    /\ ctxDone
    /\ closed

\* C7: with Workers >= 1, Run closes the channel and returns only when
\* Found >= Count or the context has been cancelled.
C7_ClosedOnlyWhenDoneOrCancelled ==
    (cfg.Workers >= 1 /\ (closed \/ runPc \in {"close", "done"}))
    => (found >= cfg.Count \/ ctxDone)

C7_Witness ==
    /\ runPc = "done"
    /\ cfg.Workers >= 1
    /\ cfg.Count = 2
    /\ found = 2
    /\ ~ctxDone

\* C8: Total and Found never decrease, Total >= Found in every state, and
\* neither counter changes once the channel is closed.
C8_CountersMonotoneThenFrozen ==
    /\ [](total >= found)
    /\ [][/\ total' >= total
          /\ found' >= found
          /\ closed => (total' = total /\ found' = found)]_vars

C8_Witness ==
    /\ closed
    /\ found > cfg.Count
    /\ total > found

\* C9, as claimed: a Config with a pattern that does not compile makes Run
\* give up before any worker starts, with Total 0 and nothing published.
InvalidPatternIn(c) ==
    \E p \in {c.Prefix, c.Suffix, c.Contains} : p # <<>> /\ ValidateHexPattern(p) # NoErr

Effective(p) == IF ValidateHexPattern(p) # NoErr THEN <<>> ELSE p

EffectiveConfig(c) ==
    [c EXCEPT !.Prefix = Effective(@), !.Suffix = Effective(@), !.Contains = Effective(@)]

Fails(p) == p # <<>> /\ compileHexPattern(p).err # NoErr

CliPatternFails(a) ==
    \/ Fails(a.flags.Prefix)
    \/ Fails(a.flags.Suffix)
    \/ Fails(a.flags.Contains)
    \/ a.flags.Regex # <<>> /\ regexpCompile(a.flags.Regex).err # NoErr

TuiPatternFails(in) ==
    \/ Fails(TrimSpace(in.Prefix))
    \/ Fails(TrimSpace(in.Suffix))
    \/ Fails(TrimSpace(in.Contains))

RunNotInvoked ==
    /\ runPc = "idle"
    /\ spawned = 0
    /\ \A w \in WorkerIds : pc[w] = "none"
    /\ total = 0
    /\ keysGenerated = 0

NoSearchObjects(a) == a.ctx = "nil" /\ a.stats = "nil" /\ a.resultCh = "nil"

C10_InvalidPatternIsReported ==
    /\ []((app.mode = "cli" /\ CliPatternFails(app))
          => /\ RunNotInvoked
             /\ app.pc \in {"start", "exit"}
             /\ app.pc = "exit"
                => /\ app.err # NoError
                   /\ app.err[1] \in {"--prefix", "--suffix", "--contains", "invalid regex"})
    /\ []((app.mode = "tui" /\ app.state = "stateForm")
          => (RunNotInvoked /\ NoSearchObjects(app)))
    /\ [][(/\ app.mode = "tui"
           /\ app.state = "stateForm"
           /\ TuiPatternFails(app.inputs)
           /\ app'.inputs = app.inputs)
          => /\ app'.state = "stateForm"
             /\ app'.errMsg # NoError
             /\ app'.errMsg[1] \in {"prefix", "suffix", "contains"}
             /\ NoSearchObjects(app')
             /\ RunNotInvoked']_vars

C10_Witness ==
    /\ app.mode = "tui"
    /\ app.state = "stateForm"
    /\ Fails(TrimSpace(app.inputs.Contains))
    /\ app.errMsg = <<"contains", ValidateHexPattern(TrimSpace(app.inputs.Contains))>>
    /\ NoSearchObjects(app)
    /\ RunNotInvoked

\* C11: every Config the CLI or the TUI passes to Run has Workers >= 1 and
\* Count >= 1.  The TUI checks both inputs; the CLI passes its flags on as
\* they are.
RunInvoked == runPc # "idle"

C11_FrontEndsPassPositiveWorkersAndCount ==
    RunInvoked => (cfg.Workers >= 1 /\ cfg.Count >= 1)

(***************************************************************************)
(* The functions of package generator called on their own.  A behaviour is *)
(* one call: app holds the function, its arguments and, once the call has  *)
(* returned, its result.  No search runs.                                  *)
(***************************************************************************)
MaxPatternLen == 4
MaxBodyLen == 2

PatternChars == {"a", "B", "1", "(", ")", "|", "x", " "}

\* The strings of at most n characters of chars.
RECURSIVE StringsUpTo(_, _)
StringsUpTo(chars, n) ==
    IF n = 0 THEN {<<>>}
    ELSE LET shorter == StringsUpTo(chars, n - 1) IN
         shorter \cup {Append(s, c) : s \in shorter, c \in chars}

\* The patterns of the package's tests and patterns of the same kinds.
ExamplePatterns ==
    {<<"a", "|", "b", "|", "c">>, <<"x", "(", "a", "|", "b", "|", "c", ")", "(", "1", "0", "|", "2", "0", "|", "3", "0", "|", "4", "0", "|", "5", "0", ")">>, <<"(", "a", "|", "b", "|", "c", ")", "(", "1", "0", "|", "2", "0", "|", "3", "0", "|", "4", "0", "|", "5", "0", ")">>,
     <<"e", "|", "f", "|", "f", "f">>, <<"c", "0", "f", "f", "e", "e">>, <<"(", "(", "a", "|", "b", ")", "c", "|", "d", ")", "e">>, <<"(", "(", "a", ")", ")">>, <<"a", "(", "b", "|", "c", ")", "d", "|", "a", "b", "d", "|", "a", "c", "d">>,
     <<"0", "x", "(", "a", "|", "b", ")">>, <<"0", "X">>, <<"a", "|", "|", "b">>, <<"(", "a", "|", ")", "1">>, <<"a", "(", ")">>, <<"a", "|", "1", "|", "2", "|", "3">>}

CompileInputs == StringsUpTo(PatternChars, MaxPatternLen) \cup ExamplePatterns

\* MinHexPatternLen: the length of the shortest alternative, 0 when the
\* pattern is empty or invalid.
countHexLetters(s) == Cardinality({i \in 1..Len(s) : s[i] \in LowerHex \cup UpperHex})

\* Mutant: the first alternative stands for the pattern.
minLoop_KeepFirst(alts, minLen, minLetters) == <<minLen, minLetters>>

RECURSIVE minLoop(_, _, _)
minLoop(alts, minLen, minLetters) ==
    IF alts = <<>> THEN <<minLen, minLetters>>
    ELSE LET l == Len(Head(alts))
             letters == countHexLetters(Head(alts))
         IN  IF l < minLen \/ (l = minLen /\ letters < minLetters)
             THEN minLoop(Tail(alts), l, letters)
             ELSE minLoop(Tail(alts), minLen, minLetters)

\* minPatternLenAndLetters after its call of compileHexPattern(pattern), whose
\* outcome is c.
minOfCompiled(c) ==
    IF c.err # NoErr \/ Len(c.alts) = 0 THEN <<0, 0>>
    ELSE minLoop(Tail(c.alts), Len(c.alts[1]), countHexLetters(c.alts[1]))

minPatternLenAndLetters(pattern) == minOfCompiled(compileHexPattern(pattern))

MinHexPatternLen(pattern) == minPatternLenAndLetters(pattern)[1]

CompileCalls ==
    {[fn |-> "compileHexPattern", pc |-> "call", pattern |-> p] : p \in CompileInputs}

MinLenCalls ==
    {[fn |-> "MinHexPatternLen", pc |-> "call", pattern |-> p] : p \in CompileInputs}

Idle ==
    UNCHANGED <<cfg, chanCap, runPc, matcher, spawned, wg, pc, key, total, found, ch,
                closed, closeCount, panicked, keysGenerated, matchLog, onlyFailures,
                received, ctxDone>>

CallCompileHexPattern ==
    /\ app.fn = "compileHexPattern"
    /\ app.pc = "call"
    /\ app' = [fn |-> app.fn, pc |-> "return", pattern |-> app.pattern,
               ret |-> compileHexPattern(app.pattern)]
    /\ Idle

CallMinHexPatternLen ==
    /\ app.fn = "MinHexPatternLen"
    /\ app.pc = "call"
    /\ app' = [fn |-> app.fn, pc |-> "return", pattern |-> app.pattern,
               ret |-> MinHexPatternLen(app.pattern)]
    /\ Idle
\* The matchers the calls build and the addresses they are asked about.
MatchPrefixes ==
    {<<>>, <<"a">>, <<"A", "1">>, <<"e", "|", "f", "|", "f", "f">>, <<"x", "(", "a", "|", "b", "|", "c", ")", "(", "1", "0", "|", "2", "0", "|", "3", "0", "|", "4", "0", "|", "5", "0", ")">>, <<"(", "a">>}

MatchSuffixes == {<<>>, <<"f">>, <<"F">>}

MatchContains == {<<>>, <<"a">>, <<"1">>}

MatchRegexps == {NilRegexp, regexpCompile(<<"^", "0", "x", "a">>).re, regexpCompile(<<"A">>).re}

AddressChars == {"0", "1", "a", "A", "f", "F"}

ExampleAddresses ==
    {<<"0", "x", "f", "f", "0", "0">>, <<"0", "x", "e", "0", "a", "b">>, <<"0", "x", "0", "a", "f", "f">>, <<"0", "x", "a", "1", "0", "f">>, <<"0", "x", "a", "b", "b", "0">>, <<"0", "x", "A", "1", "0", "F">>}

Addresses ==
    {<<"0", "x">> \o b : b \in StringsUpTo(AddressChars, MaxBodyLen)}
        \cup ExampleAddresses

MatcherCalls ==
    {[fn |-> "BuildMatcher", pc |-> "call", prefix |-> p, suffix |-> s,
      contains |-> c, re |-> r, caseSensitive |-> cs] :
        p \in MatchPrefixes, s \in MatchSuffixes, c \in MatchContains,
        r \in MatchRegexps, cs \in BOOLEAN}
    \cup
    {[fn |-> "BuildMatcher", pc |-> "call", prefix |-> p, suffix |-> s,
      contains |-> c, re |-> NilRegexp, caseSensitive |-> cs] :
        p \in {<<>>, <<"a">>, <<"(", "a">>}, s \in {<<>>, <<"f">>, <<"1", "|">>},
        c \in {<<>>, <<"1">>, <<"a", "|", ")">>, <<"g">>}, cs \in BOOLEAN}

CallBuildMatcher ==
    /\ app.fn = "BuildMatcher"
    /\ app.pc = "call"
    /\ app' = [fn |-> app.fn, pc |-> "built", prefix |-> app.prefix,
               suffix |-> app.suffix, contains |-> app.contains, re |-> app.re,
               caseSensitive |-> app.caseSensitive,
               m |-> BuildMatcher(app.prefix, app.suffix, app.contains, app.re,
                                  app.caseSensitive)]
    /\ Idle

\* A call of the closure BuildMatcher returned.
CallMatcher ==
    /\ app.fn = "BuildMatcher"
    /\ app.pc = "built"
    /\ \E addr \in Addresses :
        app' = [fn |-> app.fn, pc |-> "return", prefix |-> app.prefix,
                suffix |-> app.suffix, contains |-> app.contains, re |-> app.re,
                caseSensitive |-> app.caseSensitive, m |-> app.m,
                addr |-> addr, ret |-> Matches(app.m, addr)]
    /\ Idle
(***************************************************************************)
(* HexDifficulty.  Every denominator the estimate builds is a power of     *)
(* two (16^len * 2^letters), so a big.Rat is held as num / 2^log2den and   *)
(* patternDenominator yields the exponent.  A big.Int result is held as    *)
(* its decimal digits, most significant first.                             *)
(***************************************************************************)
RECURSIVE Pow2(_)
Pow2(n) == IF n = 0 THEN 1 ELSE 2 * Pow2(n - 1)

NilRat == [set |-> FALSE, num |-> 0, log2den |-> 0]

NewRat(n, e) == [set |-> TRUE, num |-> n, log2den |-> e]

RatAdd(p, q) ==
    LET e == IF p.log2den > q.log2den THEN p.log2den ELSE q.log2den IN
    NewRat(p.num * Pow2(e - p.log2den) + q.num * Pow2(e - q.log2den), e)

RatMul(p, q) == NewRat(p.num * q.num, p.log2den + q.log2den)

\* Mutant: the letters do not count.
patternDenominator_NoLetters(hexLen, letters, caseSensitive) == 4 * hexLen

\* log2 of 16^hexLen, times 2^letters for a case-sensitive pattern.
patternDenominator(hexLen, letters, caseSensitive) ==
    4 * hexLen + (IF caseSensitive /\ letters > 0 THEN letters ELSE 0)

\* slices.Sort: the order of the bytes of the strings.
ByteOrder ==
    <<"0", "1", "2", "3", "4", "5", "6", "7", "8", "9",
      "A", "B", "C", "D", "E", "F", "a", "b", "c", "d", "e", "f">>

Byte(c) == CHOOSE n \in 1..Len(ByteOrder) : ByteOrder[n] = c

StringLess(a, b) ==
    \E k \in 0..Len(a) :
        /\ k <= Len(b)
        /\ SubSeq(a, 1, k) = SubSeq(b, 1, k)
        /\ \/ k = Len(a) /\ k < Len(b)
           \/ k < Len(a) /\ k < Len(b) /\ Byte(a[k + 1]) < Byte(b[k + 1])

\* The strings of list are distinct.
slicesSort(list) ==
    LET elems == {list[k] : k \in 1..Len(list)} IN
    [i \in 1..Len(list) |->
        CHOOSE x \in elems : Cardinality({y \in elems : StringLess(y, x)}) = i - 1]

RECURSIVE sumLoop(_, _, _)
sumLoop(reduced, sum, caseSensitive) ==
    IF reduced = <<>> THEN sum
    ELSE LET alt == Head(reduced)
             den == patternDenominator(Len(alt), countHexLetters(alt), caseSensitive)
         IN  sumLoop(Tail(reduced), RatAdd(sum, NewRat(1, den)), caseSensitive)

\* Mutant: no alternative is redundant.
redundant_Never(a, alts, isPrefix) == FALSE

\* a is redundant: a shorter alternative is a prefix (a suffix) of it.
redundant(a, alts, isPrefix) ==
    \E k \in 1..Len(alts) :
        /\ ~(a = alts[k] \/ Len(alts[k]) >= Len(a))
        /\ IF isPrefix THEN HasPrefix(a, alts[k]) ELSE HasSuffix(a, alts[k])

\* Mutant: no alternative is removed.
reduced_KeepAll(alts, isPrefix) == alts

reduced(alts, isPrefix) == SelectSeq(alts, LAMBDA a : ~redundant(a, alts, isPrefix))

\* Mutant: a pattern that does not compile is a constraint every address
\* satisfies.
edgeOfCompiled_InvalidIsCertain(c, isPrefix, caseSensitive) ==
    IF c.err # NoErr THEN NewRat(1, 0)
    ELSE IF Len(c.alts) = 0 THEN NilRat
    ELSE sumLoop(slicesSort(reduced(c.alts, isPrefix)), NewRat(0, 0), caseSensitive)

\* edgePatternProbability after its call of compileHexPattern(p), whose
\* outcome is c.
edgeOfCompiled(c, isPrefix, caseSensitive) ==
    IF c.err # NoErr \/ Len(c.alts) = 0 THEN NilRat
    ELSE sumLoop(slicesSort(reduced(c.alts, isPrefix)), NewRat(0, 0), caseSensitive)

edgePatternProbability(pattern, isPrefix, caseSensitive) ==
    IF TrimSpace(pattern) = <<>> THEN NilRat
    ELSE edgeOfCompiled(
             compileHexPattern(IF ~caseSensitive THEN ToLower(pattern) ELSE pattern),
             isPrefix, caseSensitive)

\* containsPatternProbabilityApprox after its call of
\* minPatternLenAndLetters(p), whose outcome is ml.
containsOfMin(ml, caseSensitive) ==
    IF ml[1] = 0 THEN NilRat
    ELSE NewRat(1, patternDenominator(ml[1], ml[2], caseSensitive))

containsPatternProbabilityApprox(pattern, caseSensitive) ==
    IF TrimSpace(pattern) = <<>> THEN NilRat
    ELSE containsOfMin(
             minPatternLenAndLetters(IF ~caseSensitive THEN ToLower(pattern)
                                     ELSE pattern),
             caseSensitive)

\* big.Int: decimal digits, most significant first; no digit is zero.
NilInt == [nil |-> TRUE, digits |-> <<>>]

NewInt(ds) == [nil |-> FALSE, digits |-> ds]

BigInt(s) == NewInt([i \in 1..Len(s) |-> DigitValue(s[i])])

Reverse(s) == [i \in 1..Len(s) |-> s[Len(s) + 1 - i]]

\* Twice the number whose digits, least significant first, are x.
RECURSIVE DoubleLoop(_, _)
DoubleLoop(x, carry) ==
    IF x = <<>> THEN (IF carry = 0 THEN <<>> ELSE <<carry>>)
    ELSE LET v == 2 * Head(x) + carry IN
         <<v % 10>> \o DoubleLoop(Tail(x), v \div 10)

\* The digits of 2^e, least significant first.
RECURSIVE Pow2Loop(_)
Pow2Loop(e) == IF e = 0 THEN <<1>> ELSE DoubleLoop(Pow2Loop(e - 1), 0)

BigPow2(e) == Reverse(Pow2Loop(e))

RECURSIVE StripZeros(_)
StripZeros(ds) == IF ds # <<>> /\ Head(ds) = 0 THEN StripZeros(Tail(ds)) ELSE ds

RECURSIVE QuoLoop(_, _, _, _)
QuoLoop(x, n, rem, q) ==
    IF x = <<>> THEN StripZeros(q)
    ELSE LET v == rem * 10 + Head(x) IN
         QuoLoop(Tail(x), n, v % n, Append(q, v \div n))

\* Mutant: half the denominator is divided.
Quo_OfHalf(log2den, num) ==
    QuoLoop(BigPow2(IF log2den > 0 THEN log2den - 1 ELSE 0), num, 0, <<>>)

\* Quo(den, num) for den = 2^log2den: the quotient truncated.
Quo(log2den, num) == QuoLoop(BigPow2(log2den), num, 0, <<>>)

\* if p != nil { totalP.Mul(totalP, p) }
mulIfSet(totalP, p) == IF p.set THEN RatMul(totalP, p) ELSE totalP

\* if d.Sign() == 0 { return big.NewInt(1) }; return d
quoOrOne(d) == IF d = <<>> THEN NewInt(<<1>>) ELSE NewInt(d)

\* Mutant: active is not looked at.
difficultyOf_ActiveIgnored(active, totalP) ==
    quoOrOne(Quo(totalP.log2den, totalP.num))

\* HexDifficulty from the three probabilities on.
difficultyOf(active, totalP) ==
    IF ~active \/ totalP.num = 0 THEN NilInt
    ELSE quoOrOne(Quo(totalP.log2den, totalP.num))

difficultyOfParts(p1, p2, p3) ==
    difficultyOf(p1.set \/ p2.set \/ p3.set,
                 mulIfSet(mulIfSet(mulIfSet(NewRat(1, 0), p1), p2), p3))

HexDifficulty(prefix, suffix, contains, caseSensitive) ==
    difficultyOfParts(edgePatternProbability(prefix, TRUE, caseSensitive),
                      edgePatternProbability(suffix, FALSE, caseSensitive),
                      containsPatternProbabilityApprox(contains, caseSensitive))

\* x < y for two numbers that are not nil.
BigLess(x, y) ==
    \/ Len(x.digits) < Len(y.digits)
    \/ /\ Len(x.digits) = Len(y.digits)
       /\ \E k \in 1..Len(x.digits) :
            /\ SubSeq(x.digits, 1, k - 1) = SubSeq(y.digits, 1, k - 1)
            /\ x.digits[k] < y.digits[k]

AllDigits ==
    <<"0", "|", "1", "|", "2", "|", "3", "|", "4", "|", "5", "|", "6", "|", "7", "|",
      "8", "|", "9", "|", "a", "|", "b", "|", "c", "|", "d", "|", "e", "|", "f">>

DifficultyPrefixes ==
    CompileInputs \cup {AllDigits, <<"a", "|", "A">>, <<"A", "b", "|", "a">>, <<"a", "b", "|", "a", "|", "b", "1">>, <<"c", "0", "f", "f", "e", "e">>, <<"C", "0", "F", "F", "E", "E">>}

DifficultySuffixes == {<<>>, <<"c", "0", "f", "f", "e", "e">>, <<"f", "|", "1", "f">>, <<"(", "a">>}

DifficultyContains ==
    {<<"a", "b", "|", "1", "c", "|", "1", "2", "3">>, <<"a", "b", "c", "|", "a", "1", "|", "1", "1">>, <<"A", "|", "b", "1">>,
     <<"d", "e", "a", "d", "|", "f", "0", "0", "d", "|", "b", "0", "b">>, <<"a", "B", "|", "a", "b", "|", "(", "1">>}

DifficultyCalls ==
    {[fn |-> "HexDifficulty", pc |-> "call", prefix |-> p, suffix |-> <<>>,
      contains |-> <<>>, caseSensitive |-> cs] :
        p \in DifficultyPrefixes, cs \in BOOLEAN}
    \cup
    {[fn |-> "HexDifficulty", pc |-> "call", prefix |-> p, suffix |-> <<>>,
      contains |-> c, caseSensitive |-> cs] :
        p \in {<<>>, <<"e", "|", "f", "|", "f", "f">>}, c \in DifficultyContains, cs \in BOOLEAN}
    \cup
    {[fn |-> "HexDifficulty", pc |-> "call", prefix |-> p, suffix |-> s,
      contains |-> c, caseSensitive |-> cs] :
        p \in MatchPrefixes \cup {<<"(", "a", "|", "b", "|", "c", ")", "(", "1", "0", "|", "2", "0", "|", "3", "0", "|", "4", "0", "|", "5", "0", ")">>},
        s \in DifficultySuffixes, c \in MatchContains, cs \in BOOLEAN}

CallHexDifficulty ==
    /\ app.fn = "HexDifficulty"
    /\ app.pc = "call"
    /\ app' = [fn |-> app.fn, pc |-> "return", prefix |-> app.prefix,
               suffix |-> app.suffix, contains |-> app.contains,
               caseSensitive |-> app.caseSensitive,
               ret |-> HexDifficulty(app.prefix, app.suffix, app.contains,
                                     app.caseSensitive)]
    /\ Idle

\* One call of the package, with arguments of the kinds its callers pass.
InitLib ==
    /\ \/ app \in CompileCalls
       \/ app \in MinLenCalls
       \/ app \in MatcherCalls
       \/ app \in DifficultyCalls
    /\ EngineIdle

NextLib ==
    \/ CallCompileHexPattern
    \/ CallMinHexPatternLen
    \/ CallBuildMatcher
    \/ CallMatcher
    \/ CallHexDifficulty

SpecLib == InitLib /\ [][NextLib]_vars

(***************************************************************************)
(* The claims about the pattern compiler.                                  *)
(***************************************************************************)
\* The call of compileHexPattern has returned, without an error.
Compiled == app.fn = "compileHexPattern" /\ app.pc = "return"

CompiledOk == Compiled /\ app.ret.err = NoErr

\* The expansions of the top-level branches, one after the other.
RECURSIVE ExpansionsOf(_)
ExpansionsOf(branches) ==
    IF branches = <<>> THEN <<>>
    ELSE expandBranch(Head(branches)).alts \o ExpansionsOf(Tail(branches))

Expansions(pattern) ==
    ExpansionsOf(splitTopLevel(StripHexMarker(TrimSpace(pattern))).alts)

\* The strings of list, each at the place of its first occurrence.
RECURSIVE FirstSeen(_)
FirstSeen(list) ==
    IF list = <<>> THEN <<>>
    ELSE LET front == SubSeq(list, 1, Len(list) - 1)
             last == list[Len(list)]
         IN  IF InSeq(last, front) THEN FirstSeen(front)
             ELSE Append(FirstSeen(front), last)

NoDuplicates(list) == \A i, j \in 1..Len(list) : list[i] = list[j] => i = j

\* C12: a pattern that compiles yields the expansions of its top-level
\* branches with no string twice, each at the place of its first occurrence;
\* "a|b|c" yields a, b, c in this order.
C12_UnionDeduplicatedInFirstSeenOrder ==
    CompiledOk /\ TrimSpace(app.pattern) # <<>> =>
        /\ NoDuplicates(app.ret.alts)
        /\ app.ret.alts = FirstSeen(Expansions(app.pattern))
        /\ app.pattern = <<"a", "|", "b", "|", "c">> => app.ret.alts = <<<<"a">>, <<"b">>, <<"c">>>>

\* A pattern whose branches expand to the same string more than once.
C12_Witness ==
    /\ CompiledOk
    /\ Len(app.ret.alts) >= 2
    /\ Len(Expansions(app.pattern)) > Len(app.ret.alts)

\* The pattern of TestBuildMatcher_GroupedPrefix and its 15 combinations.
GroupedPrefix == <<"x", "(", "a", "|", "b", "|", "c", ")", "(", "1", "0", "|", "2", "0", "|", "3", "0", "|", "4", "0", "|", "5", "0", ")">>

Combinations ==
    <<<<"a", "1", "0">>, <<"a", "2", "0">>, <<"a", "3", "0">>, <<"a", "4", "0">>, <<"a", "5", "0">>, 
      <<"b", "1", "0">>, <<"b", "2", "0">>, <<"b", "3", "0">>, <<"b", "4", "0">>, <<"b", "5", "0">>, 
      <<"c", "1", "0">>, <<"c", "2", "0">>, <<"c", "3", "0">>, <<"c", "4", "0">>, <<"c", "5", "0">>>>

\* The strings u \o v for u of left and v of right, those of left outermost.
Product(left, right) ==
    [k \in 1..(Len(left) * Len(right)) |->
        left[((k - 1) \div Len(right)) + 1] \o right[((k - 1) % Len(right)) + 1]]

\* The pattern without its marker is one branch, cut after its k-th character
\* into two parts that expand on their own.
CutsInTwo(s, k) ==
    /\ splitTopLevel(s).err = NoErr
    /\ Len(splitTopLevel(s).alts) = 1
    /\ expandBranch(SubSeq(s, 1, k)).err = NoErr
    /\ expandBranch(SubSeq(s, k + 1, Len(s))).err = NoErr

Matched == app.fn = "BuildMatcher" /\ app.pc = "return"

OnlyPrefix ==
    app.suffix = <<>> /\ app.contains = <<>> /\ ~app.re.set

Body(addr) == TrimPrefix(addr, <<"0", "x">>)

\* C13: the expansion of a branch is the ordered cross-product of its parts
\* and the leading "0x" or "x" is stripped, not matched;
\* "x(a|b|c)(10|20|30|40|50)" compiles to the 15 strings a10 ... c50, its
\* minimum alternative length is 3, and as a prefix it accepts a body that
\* starts with a10 and rejects one that starts with abb.
C13_BranchIsOrderedCrossProduct ==
    /\ Compiled =>
        LET s == StripHexMarker(TrimSpace(app.pattern)) IN
        /\ \A k \in 1..(Len(s) - 1) :
              CutsInTwo(s, k) =>
                  /\ app.ret.err = NoErr
                  /\ app.ret.alts =
                        FirstSeen(Product(expandBranch(SubSeq(s, 1, k)).alts,
                                          expandBranch(SubSeq(s, k + 1, Len(s))).alts))
        /\ app.pattern = GroupedPrefix => app.ret = Success(Combinations)
        /\ app.pattern = <<"0", "x", "(", "a", "|", "b", ")">> => app.ret = Success(<<<<"a">>, <<"b">>>>)
    /\ app.fn = "MinHexPatternLen" /\ app.pc = "return" /\ app.pattern = GroupedPrefix
          => app.ret = 3
    /\ Matched /\ app.prefix = GroupedPrefix =>
        /\ HasPrefix(Body(app.addr), <<"a", "1", "0">>) /\ OnlyPrefix => app.ret
        /\ HasPrefix(Body(app.addr), <<"a", "b", "b">>) => ~app.ret

\* The grouped pattern has been compiled to its 15 combinations.
C13_Witness ==
    /\ Compiled
    /\ app.pattern = GroupedPrefix
    /\ Len(app.ret.alts) = 15

\* C14: groups nest; "((a|b)c|d)e" compiles to ace, bce, de.
C14_NestedGroupsCompile ==
    Compiled /\ app.pattern = <<"(", "(", "a", "|", "b", ")", "c", "|", "d", ")", "e">> =>
        app.ret = Success(<<<<"a", "c", "e">>, <<"b", "c", "e">>, <<"d", "e">>>>)

\* The defects of a pattern, read off its text t, the pattern without the
\* surrounding white space and without the optional 0x or x.
RECURSIVE Balanced(_, _)
Balanced(t, depth) ==
    IF t = <<>> THEN depth = 0
    ELSE CASE Head(t) = "(" -> Balanced(Tail(t), depth + 1)
           [] Head(t) = ")" -> depth > 0 /\ Balanced(Tail(t), depth - 1)
           [] OTHER -> Balanced(Tail(t), depth)

EmptyAlternative(t) ==
    \/ Head(t) = "|"
    \/ t[Len(t)] = "|"
    \/ \E i \in 1..(Len(t) - 1) :
          <<t[i], t[i + 1]>> \in {<<"|", "|">>, <<"(", "|">>, <<"|", ")">>, <<"(", ")">>}

OutsideAlphabet(t) ==
    \E i \in 1..Len(t) : ~isHex(t[i]) /\ t[i] \notin {"(", ")", "|"}

Defective(t) ==
    t = <<>> \/ ~Balanced(t, 0) \/ EmptyAlternative(t) \/ OutsideAlphabet(t)

\* C15: a pattern with a defect (nothing left after the optional prefix, an
\* unmatched or unexpected parenthesis, an empty alternative, a character
\* outside [0-9a-fA-F()|]) fails with an error and no alternatives; a pattern
\* with none of the defects compiles.
C15_FailsExactlyOnTheListedDefects ==
    Compiled /\ TrimSpace(app.pattern) # <<>> =>
        IF Defective(StripHexMarker(TrimSpace(app.pattern)))
        THEN app.ret.err # NoErr /\ app.ret.alts = <<>>
        ELSE app.ret.err = NoErr /\ app.ret.alts # <<>>

\* Every alternative of the result is a non-empty string over chars.
MembersOver(chars) ==
    \A k \in 1..Len(app.ret.alts) :
        /\ app.ret.alts[k] # <<>>
        /\ \A j \in 1..Len(app.ret.alts[k]) : app.ret.alts[k][j] \in chars

\* C16 as stated: every alternative of a pattern that compiles is non-empty
\* and consists of the characters 0-9 and a-f only.
C16_MembersAreLowerHex == CompiledOk => MembersOver(Digits \cup LowerHex)

\* C16: every alternative of a pattern that compiles is non-empty and
\* consists of the characters 0-9, a-f and A-F, in the case the pattern has;
\* of 0-9 and a-f only when the pattern has no upper-case letter.
C16_MembersAreHexInThePatternsCase ==
    CompiledOk =>
        /\ MembersOver(Digits \cup LowerHex \cup UpperHex)
        /\ ToLower(app.pattern) = app.pattern => MembersOver(Digits \cup LowerHex)
        /\ \A c \in UpperHex :
              (\E i \in 1..Len(app.pattern) : app.pattern[i] = c)
                  => \E k \in 1..Len(app.ret.alts) : InSeq(c, app.ret.alts[k])

\* A pattern with an upper-case letter has compiled to alternatives of which
\* one has the upper-case letter.
C16_Witness ==
    /\ CompiledOk
    /\ Len(app.ret.alts) >= 2
    /\ \E k \in 1..Len(app.ret.alts) : InSeq("B", app.ret.alts[k])

(***************************************************************************)
(* The claims about the matcher.                                           *)
(***************************************************************************)
\* The alternatives of a constraint of the matcher that has been called:
\* none when the pattern is empty (or does not compile, see C9).
AltsOf(pattern) ==
    compileHexPattern(IF app.caseSensitive THEN pattern ELSE ToLower(pattern)).alts

\* The body of the address as the matcher compares it.
ComparedBody ==
    Body(IF app.caseSensitive THEN app.addr ELSE ToLower(app.addr))

PrefixPasses ==
    \E k \in 1..Len(AltsOf(app.prefix)) : HasPrefix(ComparedBody, AltsOf(app.prefix)[k])

SuffixPasses ==
    \E k \in 1..Len(AltsOf(app.suffix)) : HasSuffix(ComparedBody, AltsOf(app.suffix)[k])

ContainsPasses ==
    \E k \in 1..Len(AltsOf(app.contains)) :
        Contains(ComparedBody, AltsOf(app.contains)[k])

\* C17: the matcher accepts an address exactly when every constraint that is
\* present passes: the body starts with a prefix alternative, ends with a
\* suffix alternative, contains a contains alternative and the regex matches
\* the address; the prefix "e|f|ff" accepts ff.. and e0.. and rejects 0a...
C17_AcceptsIffEveryPresentConstraintPasses ==
    Matched =>
        /\ app.ret <=>
              /\ AltsOf(app.prefix) # <<>> => PrefixPasses
              /\ AltsOf(app.suffix) # <<>> => SuffixPasses
              /\ AltsOf(app.contains) # <<>> => ContainsPasses
              /\ app.re.set => MatchString(app.re, app.addr)
        /\ app.prefix = <<"e", "|", "f", "|", "f", "f">> /\ OnlyPrefix =>
              /\ HasPrefix(Body(app.addr), <<"f", "f">>) => app.ret
              /\ HasPrefix(Body(app.addr), <<"e", "0">>) => app.ret
              /\ HasPrefix(Body(app.addr), <<"0", "a">>) => ~app.ret

\* The matcher with the prefix "e|f|ff" and a suffix has accepted an address
\* that starts with ff, by its second or third alternative.
C17_Witness ==
    /\ Matched
    /\ app.prefix = <<"e", "|", "f", "|", "f", "f">>
    /\ app.suffix # <<>>
    /\ HasPrefix(Body(app.addr), <<"f", "f">>)
    /\ app.ret

\* The addresses that differ from the one the matcher was called with in the
\* case of letters only.
CaseVariants == {a \in Addresses : ToLower(a) = ToLower(app.addr)}

\* C18 as stated: a matcher built with caseSensitive = false gives the same
\* verdict for two addresses that differ in the case of letters only,
\* whatever its prefix, suffix, contains and regex constraints are.
C18_CaseInsensitiveMatcherIgnoresCase ==
    Matched /\ ~app.caseSensitive =>
        \A a \in CaseVariants : Matches(app.m, a) = app.ret

\* C18: a matcher built with caseSensitive = false gives the same verdict for
\* two addresses that differ in the case of letters only, unless its regex
\* tells them apart; a matcher built with caseSensitive = true does not: with
\* the prefix "A1" it accepts 0xA10F and rejects 0xa10f.
C18_CaseInsensitiveUpToTheRegex ==
    /\ Matched /\ ~app.caseSensitive =>
          \A a \in CaseVariants :
              (app.re.set => MatchString(app.re, a) = MatchString(app.re, app.addr))
                  => Matches(app.m, a) = app.ret
    /\ Matched /\ app.caseSensitive /\ app.prefix = <<"A", "1">> /\ OnlyPrefix
          /\ app.addr = <<"0", "x", "A", "1", "0", "F">> => app.ret /\ ~Matches(app.m, <<"0", "x", "a", "1", "0", "f">>)

\* A matcher built with caseSensitive = false and a pattern has accepted an
\* address with an upper-case letter that has a variant in the other case.
C18_Witness ==
    /\ Matched
    /\ ~app.caseSensitive
    /\ app.prefix # <<>>
    /\ app.ret
    /\ ToLower(app.addr) # app.addr
    /\ Cardinality(CaseVariants) >= 2

(***************************************************************************)
(* The claims about the estimate.                                          *)
(***************************************************************************)
\* HexDifficulty has returned for a valid prefix pattern, nothing else, with
\* caseSensitive = true.
EstimatedPrefixOnly ==
    /\ app.fn = "HexDifficulty"
    /\ app.pc = "return"
    /\ app.caseSensitive
    /\ app.suffix = <<>>
    /\ app.contains = <<>>
    /\ TrimSpace(app.prefix) # <<>>
    /\ ValidateHexPattern(app.prefix) = NoErr

\* The estimate of the same pattern with caseSensitive = false.
Insensitive == HexDifficulty(app.prefix, <<>>, <<>>, FALSE)

HasLetter(pattern) ==
    \E i \in 1..Len(pattern) : pattern[i] \in LowerHex \cup UpperHex

\* C19 as stated: the case-sensitive estimate of a valid prefix pattern is at
\* least the case-insensitive one, and greater when the pattern has a letter.
C19_CaseSensitiveIsHarder ==
    EstimatedPrefixOnly =>
        /\ ~BigLess(app.ret, Insensitive)
        /\ HasLetter(app.prefix) => BigLess(Insensitive, app.ret)

\* C19: the case-sensitive estimate of a valid prefix pattern is at least the
\* case-insensitive one; it is greater when the pattern has one alternative
\* and this alternative has a letter.
C19_CaseSensitiveIsNotEasier ==
    EstimatedPrefixOnly =>
        /\ ~app.ret.nil /\ ~Insensitive.nil
        /\ ~BigLess(app.ret, Insensitive)
        /\ Len(compileHexPattern(app.prefix).alts) = 1 /\ HasLetter(app.prefix)
              => BigLess(Insensitive, app.ret)

\* The estimate of a pattern with several alternatives and letters is the
\* same in both modes.
C19_Witness ==
    /\ EstimatedPrefixOnly
    /\ HasLetter(app.prefix)
    /\ Len(compileHexPattern(app.prefix).alts) >= 2
    /\ app.ret = Insensitive

Estimated == app.fn = "HexDifficulty" /\ app.pc = "return"

\* The alternatives the estimate takes from a pattern, none when the pattern
\* is empty or does not compile.
EstimateAlts(pattern) ==
    LET c == compileHexPattern(IF app.caseSensitive THEN pattern
                               ELSE ToLower(pattern))
    IN  {c.alts[k] : k \in 1..Len(c.alts)}

\* The probability of an alternative is 1 / 2^Exponent: 1/16 for each
\* character and, case-sensitively, 1/2 for each letter.
Exponent(alt) ==
    4 * Len(alt) + (IF app.caseSensitive THEN countHexLetters(alt) ELSE 0)

\* The alternatives that have no shorter alternative as prefix (as suffix).
NonRedundant(alts, isPrefix) ==
    {a \in alts :
        ~\E b \in alts :
            /\ Len(b) < Len(a)
            /\ IF isPrefix THEN HasPrefix(a, b) ELSE HasSuffix(a, b)}

\* The shortest alternatives, which stand for a contains pattern.
Shortest(alts) == {a \in alts : \A b \in alts : Len(a) <= Len(b)}

MaxExponent(alts) ==
    CHOOSE e \in {Exponent(a) : a \in alts} : \A a \in alts : Exponent(a) <= e

MinExponent(alts) ==
    CHOOSE e \in {Exponent(a) : a \in alts} : \A a \in alts : Exponent(a) >= e

\* The sum of 1 / 2^Exponent(a) over alts, in units of 1 / 2^e.
RECURSIVE SumInUnits(_, _)
SumInUnits(alts, e) ==
    IF alts = {} THEN 0
    ELSE LET a == CHOOSE x \in alts : TRUE IN
         Pow2(e - Exponent(a)) + SumInUnits(alts \ {a}, e)

\* The probability of a constraint as <<numerator, log2 of the denominator>>,
\* <<1, 0>> for a constraint that is absent.
EdgeProbability(pattern, isPrefix) ==
    LET kept == NonRedundant(EstimateAlts(pattern), isPrefix) IN
    IF kept = {} THEN <<1, 0>>
    ELSE <<SumInUnits(kept, MaxExponent(kept)), MaxExponent(kept)>>

ContainsProbability(pattern) ==
    IF EstimateAlts(pattern) = {} THEN <<1, 0>>
    ELSE <<1, MinExponent(Shortest(EstimateAlts(pattern)))>>

\* The truncated reciprocal of the product of three probabilities.
Reciprocal(p, s, c) == NewInt(Quo(p[2] + s[2] + c[2], p[1] * s[1] * c[1]))

\* C20: the estimate is the truncated reciprocal of the product of the
\* probabilities of the constraints that are present, the probability of a
\* prefix or suffix being the sum of 1/(16^len * caseFactor) over its
\* non-redundant alternatives; for the prefix "(a|b|c)(10|20|30|40|50)" and
\* the suffix "c0ffee" it is 4581298449 = floor(16^9 / 15) case-insensitively
\* and 293203100740 = floor(16^9 * 2^6 / 15) case-sensitively.
C20_EstimateIsTruncatedReciprocalOfProduct ==
    Estimated =>
        /\ IF EstimateAlts(app.prefix) \cup EstimateAlts(app.suffix)
                  \cup EstimateAlts(app.contains) = {}
           THEN app.ret.nil
           ELSE app.ret = Reciprocal(EdgeProbability(app.prefix, TRUE),
                                     EdgeProbability(app.suffix, FALSE),
                                     ContainsProbability(app.contains))
        /\ /\ app.prefix = <<"(", "a", "|", "b", "|", "c", ")", "(", "1", "0", "|", "2", "0", "|", "3", "0", "|", "4", "0", "|", "5", "0", ")">>
           /\ app.suffix = <<"c", "0", "f", "f", "e", "e">>
           /\ app.contains = <<>>
           => IF app.caseSensitive
              THEN app.ret = BigInt(<<"2", "9", "3", "2", "0", "3", "1", "0", "0", "7", "4", "0">>) /\ app.ret = NewInt(Quo(42, 15))
              ELSE app.ret = BigInt(<<"4", "5", "8", "1", "2", "9", "8", "4", "4", "9">>) /\ app.ret = NewInt(Quo(36, 15))

\* The case-sensitive estimate of the grouped prefix with the suffix c0ffee.
C20_Witness ==
    /\ Estimated
    /\ app.prefix = <<"(", "a", "|", "b", "|", "c", ")", "(", "1", "0", "|", "2", "0", "|", "3", "0", "|", "4", "0", "|", "5", "0", ")">>
    /\ app.suffix = <<"c", "0", "f", "f", "e", "e">>
    /\ app.contains = <<>>
    /\ app.caseSensitive
    /\ app.ret = BigInt(<<"2", "9", "3", "2", "0", "3", "1", "0", "0", "7", "4", "0">>)

\* The first alternative of a pattern that compiles.
FirstAlt(pattern) == compileHexPattern(pattern).alts[1]

Compiles(pattern) ==
    TrimSpace(pattern) # <<>> /\ ValidateHexPattern(pattern) = NoErr

\* C21: an alternative that has a shorter alternative as prefix (as suffix, in
\* a suffix pattern) adds nothing to the probability: the estimate of the
\* prefix "e|f|ff" is that of "e|f", and a pattern with one more alternative,
\* its first alternative followed (preceded) by a digit, has the same estimate.
C21_RedundantAlternativeAddsNothing ==
    Estimated =>
        /\ app.prefix = <<"e", "|", "f", "|", "f", "f">> =>
              app.ret = HexDifficulty(<<"e", "|", "f">>, app.suffix, app.contains,
                                      app.caseSensitive)
        /\ Compiles(app.prefix) =>
              app.ret = HexDifficulty(
                            TrimSpace(app.prefix) \o <<"|">> \o FirstAlt(app.prefix) \o <<"1">>,
                            app.suffix, app.contains, app.caseSensitive)
        /\ Compiles(app.suffix) =>
              app.ret = HexDifficulty(
                            app.prefix,
                            TrimSpace(app.suffix) \o <<"|", "1">> \o FirstAlt(app.suffix),
                            app.contains, app.caseSensitive)

\* The estimate of the prefix "e|f|ff" alone: 16 / 2.
C21_Witness ==
    /\ Estimated
    /\ app.prefix = <<"e", "|", "f", "|", "f", "f">>
    /\ app.suffix = <<>>
    /\ app.contains = <<>>
    /\ ~app.caseSensitive
    /\ app.ret = BigInt(<<"8">>)

\* The combined probability of the call, <<numerator, log2 of the denominator>>.
CombinedProbability ==
    LET p == EdgeProbability(app.prefix, TRUE)
        s == EdgeProbability(app.suffix, FALSE)
        c == ContainsProbability(app.contains)
    IN  <<p[1] * s[1] * c[1], p[2] + s[2] + c[2]>>

\* x * n + carry for the digits x, least significant first.
RECURSIVE TimesLoop(_, _, _)
TimesLoop(x, n, carry) ==
    IF x = <<>>
    THEN IF carry = 0 THEN <<>> ELSE <<carry % 10>> \o TimesLoop(x, n, carry \div 10)
    ELSE LET v == Head(x) * n + carry IN
         <<v % 10>> \o TimesLoop(Tail(x), n, v \div 10)

\* d * n + m for a number d and small numbers n and m.
TimesPlus(d, n, m) == NewInt(Reverse(TimesLoop(Reverse(d.digits), n, m)))

\* d is the quotient of 2^e by n, truncated: d * n <= 2^e < (d + 1) * n.
IsTruncatedQuotient(d, e, n) ==
    /\ ~BigLess(NewInt(BigPow2(e)), TimesPlus(d, n, 0))
    /\ BigLess(NewInt(BigPow2(e)), TimesPlus(d, n, n))

\* C22: an estimate that is not nil is the quotient of the denominator by the
\* numerator of the combined probability, truncated, and it is at least 1;
\* the probability 1 of a prefix that lists the 16 hex digits gives 1.
C22_EstimateIsTruncatedQuotientAtLeastOne ==
    Estimated /\ ~app.ret.nil =>
        /\ app.ret.digits # <<>>
        /\ Head(app.ret.digits) # 0
        /\ IsTruncatedQuotient(app.ret, CombinedProbability[2], CombinedProbability[1])
        /\ app.prefix = AllDigits /\ ~app.caseSensitive => app.ret = BigInt(<<"1">>)

\* The estimate of the prefix that lists the 16 hex digits.
C22_Witness ==
    /\ Estimated
    /\ app.prefix = AllDigits
    /\ ~app.caseSensitive
    /\ CombinedProbability = <<16, 4>>
    /\ app.ret = BigInt(<<"1">>)

\* C23: the estimate is nil when the prefix, the suffix and the contains
\* pattern are all empty, in both case modes (a regex is no argument of the
\* estimate), and it is a value when one of the three is a non-empty pattern
\* that compiles.
C23_NilExactlyWithoutHexConstraint ==
    Estimated =>
        /\ /\ TrimSpace(app.prefix) = <<>>
           /\ TrimSpace(app.suffix) = <<>>
           /\ TrimSpace(app.contains) = <<>>
           => app.ret.nil
        /\ Compiles(app.prefix) \/ Compiles(app.suffix) \/ Compiles(app.contains)
              => ~app.ret.nil

\* The estimate of a search without prefix, suffix and contains pattern.
C23_Witness ==
    /\ Estimated
    /\ app.prefix = <<>>
    /\ app.suffix = <<>>
    /\ app.contains = <<>>
    /\ app.ret.nil

\* L: the length of the shortest alternative of the contains pattern.
ShortestLen ==
    CHOOSE l \in {Len(a) : a \in EstimateAlts(app.contains)} :
        \A a \in EstimateAlts(app.contains) : l <= Len(a)

\* K: case-sensitively the smallest number of letters among the alternatives
\* of length L, else 0.
FewestLetters ==
    IF ~app.caseSensitive THEN 0
    ELSE CHOOSE k \in {countHexLetters(a) : a \in Shortest(EstimateAlts(app.contains))} :
             \A a \in Shortest(EstimateAlts(app.contains)) : k <= countHexLetters(a)

\* An alternative of length L with K letters (with any letters when K = 0).
Representative ==
    CHOOSE a \in Shortest(EstimateAlts(app.contains)) :
        app.caseSensitive => countHexLetters(a) = FewestLetters

\* C24: the contains pattern contributes the factor 1 / (16^L * 2^K) to the
\* combined probability, L and K taken from its shortest alternative with the
\* fewest letters; the other alternatives do not change the estimate.
C24_ContainsFactorOfShortestAlternative ==
    Estimated /\ Compiles(app.contains) =>
        /\ app.ret = Reciprocal(EdgeProbability(app.prefix, TRUE),
                                EdgeProbability(app.suffix, FALSE),
                                <<1, 4 * ShortestLen + FewestLetters>>)
        /\ app.ret = HexDifficulty(app.prefix, app.suffix, Representative,
                                   app.caseSensitive)

\* The case-sensitive estimate of the contains pattern "ab|1c|123": the
\* second alternative counts, 16^2 * 2.
C24_Witness ==
    /\ Estimated
    /\ app.prefix = <<>>
    /\ app.suffix = <<>>
    /\ app.contains = <<"a", "b", "|", "1", "c", "|", "1", "2", "3">>
    /\ app.caseSensitive
    /\ app.ret = BigInt(<<"5", "1", "2">>)

(***************************************************************************)
(* Further claims about the search engine and the front ends.              *)
(***************************************************************************)
\* C25: in a search with Workers >= 1 and Count >= 1, Found never exceeds
\* Count + Workers - 1: a worker adds at most one match after the target
\* count has been reached.
C25_FoundOvershootsByLessThanWorkers ==
    cfg.Workers >= 1 /\ cfg.Count >= 1 => found <= cfg.Count + cfg.Workers - 1

\* Every worker has passed the test of Found before the last match was
\* counted, and Found stands at Count + Workers - 1.
C25_Witness ==
    /\ cfg.Workers >= 2
    /\ cfg.Count >= 1
    /\ found = cfg.Count + cfg.Workers - 1

\* C26: when the channel's capacity is at least Count, a worker at the send
\* always finds free space in the buffer, because the Results published so
\* far and the sends under way never exceed the capacity, received or not;
\* so, even if nothing is ever received, once Found has reached Count the
\* search is cancelled or Run returns.
Sending == {w \in WorkerIds : pc[w] = "send"}

C26_SendFindsSpace ==
    chanCap >= cfg.Count => Len(Published) + Cardinality(Sending) <= chanCap

C26_PublishNeverBlocks ==
    /\ []C26_SendFindsSpace
    /\ (chanCap >= cfg.Count /\ found >= cfg.Count) ~> (ctxDone \/ runPc = "done")

\* Run has returned with the whole target in the buffer: nothing was received
\* and nothing cancelled, and a worker found a match beyond the target.
C26_Witness ==
    /\ runPc = "done"
    /\ ~ctxDone
    /\ received = <<>>
    /\ cfg.Count = 2
    /\ chanCap = 2
    /\ Len(ch) = 2
    /\ found > cfg.Count

\* C27: once Run has closed the channel the number of published Results is
\* at most min(Found, Count), and equal to it if the context was never
\* cancelled; a worker that leaves the send for the cancellation leaves
\* Found and the published Results as they were, and a published Result is
\* never withdrawn.
MinOf(a, b) == IF a < b THEN a ELSE b

LeavesSendUnsent(w) == pc[w] = "send" /\ pc'[w] = "exited"

Extends(rs, old) == Len(rs) >= Len(old) /\ SubSeq(rs, 1, Len(old)) = old

C27_AtClose ==
    closed =>
        /\ Len(Published) <= MinOf(found, cfg.Count)
        /\ ~ctxDone => Len(Published) = MinOf(found, cfg.Count)

C27_PublishedAtCloseIsMinFoundCount ==
    /\ []C27_AtClose
    /\ [][\A w \in WorkerIds :
            LeavesSendUnsent(w) => found' = found /\ Published' = Published]_vars
    /\ [][Extends(Published', Published)]_vars

\* Closed after a cancellation that took a match away from the channel while
\* the buffer had room for it.
C27_Witness ==
    /\ closed
    /\ ctxDone
    /\ found <= cfg.Count
    /\ Len(Published) < found
    /\ Len(ch) < chanCap
    /\ received # <<>>

\* C28: the loop of runCLI moves each Result from the head of the channel
\* to collected, in order and one at a time, so that nothing published is
\* lost or taken twice; it is left only when the channel is closed and
\* empty, with every worker gone, both from the select and from the drain
\* that follows a signal; once the target is reached or the search is
\* cancelled the loop is left, and collected then holds every published
\* Result, each of a different key, at most min(Found, Count) of them and
\* exactly that many if no signal came.
InCliLoop == app.mode = "cli" /\ app.pc \in {"loop", "drain"}

CliLeft == app.mode = "cli" /\ app.pc = "exit" /\ runPc # "idle"

C28_TakesTheHead ==
    InCliLoop /\ received' # received
        => /\ ch # <<>>
           /\ received' = Append(received, Head(ch))
           /\ ch' = Tail(ch)

C28_LeavesWhenClosed ==
    InCliLoop /\ app'.pc \notin {"loop", "drain"}
        => /\ closed /\ ch = <<>> /\ app'.pc = "exit" /\ received' = received
           /\ ~ctxDone => Len(received) = MinOf(found, cfg.Count)

C28_Collected ==
    CliLeft =>
        /\ closed /\ ch = <<>> /\ AllWorkersGone
        /\ DistinctKeys(received)
        /\ Len(received) <= MinOf(found, cfg.Count)

C28_CliLoopCollectsAndLeaves ==
    /\ [][C28_TakesTheHead]_vars
    /\ [][C28_LeavesWhenClosed]_vars
    /\ []C28_Collected
    /\ (InCliLoop /\ (ctxDone \/ found >= cfg.Count)) ~> CliLeft

\* runCLI has left the loop after a signal: one Result of two was collected.
C28_Witness ==
    /\ CliLeft
    /\ cfg.Count = 2
    /\ found = 1
    /\ Len(received) = 1
    /\ total > found

\* C29: the state of the terminal UI changes only from the form to running,
\* by Enter on a form that prepareSearch accepts, from running to results,
\* on the doneMsg of the closed channel, and from results to the form, by a
\* new search.  A step of the running state that cancels the context
\* without a doneMsg changes nothing else and stays in the running state,
\* and from a cancelled running state the results screen is reached.  A
\* Result is appended to the list only in the running state, and the list
\* never holds more than Count Results.
InTui == app.mode = "tui"

Running == InTui /\ app.state = "stateRunning"

C29_Transition ==
    InTui /\ app'.state # app.state =>
        \/ /\ app.state = "stateForm"
           /\ app'.state = "stateRunning"
           /\ prepareSearchErrors(app.inputs) = {}
        \/ /\ app.state = "stateRunning"
           /\ app'.state = "stateResults"
           /\ app.msg.type = "doneMsg"
           /\ closed /\ ch = <<>>
        \/ /\ app.state = "stateResults"
           /\ app'.state = "stateForm"
           /\ app' = New

C29_StopOnlyCancels ==
    Running /\ ~ctxDone /\ ctxDone' =>
        \/ app.msg.type = "doneMsg" /\ app'.state = "stateResults"
        \/ /\ app' = app
           /\ UNCHANGED <<cfg, chanCap, runPc, pc, key, total, found, ch, closed, received>>

C29_AppendsWhileRunning ==
    InTui /\ received' # received /\ received' # <<>> =>
        /\ app.state = "stateRunning"
        /\ app'.state = "stateRunning"
        /\ received' = Append(received, app.msg.r)

C29_TuiStateMachine ==
    /\ [][C29_Transition]_vars
    /\ [][C29_StopOnlyCancels]_vars
    /\ [][C29_AppendsWhileRunning]_vars
    /\ [](InTui => Len(received) <= cfg.Count)
    /\ (Running /\ ctxDone) ~> (InTui /\ app.state = "stateResults")

\* The results screen of a search that was stopped after the first of two
\* Results.
C29_Witness ==
    /\ InTui
    /\ app.state = "stateResults"
    /\ cfg.Count = 2
    /\ found = 1
    /\ Len(received) = 1

\* C30: a pattern that is not empty and does not compile counts as an empty
\* one for every function of the package that takes patterns:
\* MinHexPatternLen returns 0, the matcher BuildMatcher builds and every
\* answer it gives are those of the call with the pattern empty, and
\* HexDifficulty returns what it returns with the pattern empty, nil when
\* no other pattern is given.
Invalid(pattern) == TrimSpace(pattern) # <<>> /\ ValidateHexPattern(pattern) # NoErr

Blank(pattern) == IF Invalid(pattern) THEN <<>> ELSE pattern

SomeIsInvalid == Invalid(app.prefix) \/ Invalid(app.suffix) \/ Invalid(app.contains)

C30_InvalidPatternCountsAsEmpty ==
    /\ app.fn = "MinHexPatternLen" /\ app.pc = "return" /\ Invalid(app.pattern)
          => app.ret = 0 /\ app.ret = MinHexPatternLen(<<>>)
    /\ app.fn = "BuildMatcher" /\ app.pc \in {"built", "return"} /\ SomeIsInvalid
          => app.m = BuildMatcher(Blank(app.prefix), Blank(app.suffix),
                                  Blank(app.contains), app.re, app.caseSensitive)
    /\ Matched /\ SomeIsInvalid
          => app.ret = Matches(BuildMatcher(Blank(app.prefix), Blank(app.suffix),
                                            Blank(app.contains), app.re,
                                            app.caseSensitive), app.addr)
    /\ Estimated /\ SomeIsInvalid
          => /\ app.ret = HexDifficulty(Blank(app.prefix), Blank(app.suffix),
                                        Blank(app.contains), app.caseSensitive)
             /\ /\ Blank(app.prefix) = <<>>
                /\ Blank(app.suffix) = <<>>
                /\ Blank(app.contains) = <<>>
                => app.ret.nil

\* The estimate of a prefix with a suffix that does not compile: that of the
\* prefix alone.
C30_Witness ==
    /\ Estimated
    /\ Invalid(app.suffix)
    /\ Compiles(app.prefix)
    /\ ~app.ret.nil
====
